---- MODULE Spec2Model ----
(***************************************************************************)
(* Model of the RSA DocSign Studio pipeline (rsa-docsign-studio/src/App.tsx *)
(* and utils/rsa.ts): the React state of the App component, the three async *)
(* handlers onFile / onVerify / onDecrypt split at their suspend points,    *)
(* and the byte-level helpers (base64, hex, text encoding).  The Web Crypto *)
(* primitives are modelled as ideal primitives over byte sequences.         *)
(***************************************************************************)
EXTENDS Integers, Sequences, FiniteSets, TLC

(***************************************************************************)
(* Bounds of the model.                                                     *)
(***************************************************************************)
MaxCalls == 3
MaxNow == 1
MaxProbeLen == 3
MaxPayloadLen == 3
MaxTamperLen == 9
DigestBytes == 2
MaxHexLen == 3

(***************************************************************************)
(* Program constants.                                                       *)
(***************************************************************************)
AesKeyBits == 256
IvBytes == 12
GcmTagBytes == 16
TamperWindow == 8
RsaModulusBytes == 256
RsaOaepMaxBytes == 190
Sha256Bytes == 32

(***************************************************************************)
(* Optional values (a TypeScript `field?: T`): None is `undefined`.         *)
(***************************************************************************)
None == <<>>
Some(v) == <<v>>
IsSet(o) == o # None

(***************************************************************************)
(* Results of calls that may throw: a value or a thrown error.              *)
(***************************************************************************)
Ok(v) == [ok |-> TRUE, val |-> v, err |-> ""]
Throw(e) == [ok |-> FALSE, val |-> <<>>, err |-> e]

RECURSIVE SumSeq(_)
SumSeq(s) == IF s = <<>> THEN 0 ELSE Head(s) + SumSeq(Tail(s))

(***************************************************************************)
(* Strings are sequences of one-character strings.                          *)
(***************************************************************************)
B64Chars ==
  << "A","B","C","D","E","F","G","H","I","J","K","L","M","N","O","P",
     "Q","R","S","T","U","V","W","X","Y","Z","a","b","c","d","e","f",
     "g","h","i","j","k","l","m","n","o","p","q","r","s","t","u","v",
     "w","x","y","z","0","1","2","3","4","5","6","7","8","9","+","/" >>

B64Char(v) == B64Chars[v + 1]

B64Alphabet == {B64Chars[i] : i \in 1..64}

B64Index == [c \in B64Alphabet |-> (CHOOSE i \in 1..64 : B64Chars[i] = c) - 1]

B64Val(c) == B64Index[c]

IsB64Char(c) == c \in B64Alphabet

\* btoa over a binary string given as the sequence of its char codes:
\* four characters for every group of three bytes, the last group padded
btoa(b) ==
  LET n == Len(b)
      byte(i) == IF i <= n THEN b[i] ELSE 0
  IN [k \in 1..(4 * ((n + 2) \div 3)) |->
        LET g == (k - 1) \div 4
            b1 == byte(3 * g + 1)
            b2 == byte(3 * g + 2)
            b3 == byte(3 * g + 3)
        IN CASE (k - 1) % 4 = 0 -> B64Char(b1 \div 4)
             [] (k - 1) % 4 = 1 -> B64Char((b1 % 4) * 16 + b2 \div 16)
             [] (k - 1) % 4 = 2 -> IF 3 * g + 2 > n THEN "="
                                   ELSE B64Char((b2 % 16) * 4 + b3 \div 64)
             [] OTHER -> IF 3 * g + 3 > n THEN "=" ELSE B64Char(b3 % 64)]

\* decoding of a padding-free base64 string whose length is not 1 mod 4
DecodeGroups(s) ==
  [k \in 1..((Len(s) * 3) \div 4) |->
     LET g == (k - 1) \div 3
         v(i) == B64Val(s[4 * g + i])
     IN CASE (k - 1) % 3 = 0 -> v(1) * 4 + v(2) \div 16
          [] (k - 1) % 3 = 1 -> (v(2) % 16) * 16 + v(3) \div 4
          [] OTHER -> (v(3) % 4) * 64 + v(4)]

StripPadding(s) ==
  IF Len(s) > 0 /\ Len(s) % 4 = 0 /\ s[Len(s)] = "="
  THEN IF s[Len(s) - 1] = "="
       THEN SubSeq(s, 1, Len(s) - 2)
       ELSE SubSeq(s, 1, Len(s) - 1)
  ELSE s

\* atob: the forgiving-base64 decode; throws InvalidCharacterError
atob(s) ==
  LET t == StripPadding(s) IN
  IF Len(t) % 4 = 1 \/ \E i \in 1..Len(t) : ~IsB64Char(t[i])
  THEN Throw("InvalidCharacterError")
  ELSE Ok(DecodeGroups(t))

arrayBufferToBase64(buffer) == btoa(buffer)

base64ToArrayBuffer(base64) == atob(base64)

HexDigits ==
  << "0","1","2","3","4","5","6","7","8","9","a","b","c","d","e","f" >>

HexCodes ==
  << 48, 49, 50, 51, 52, 53, 54, 55, 56, 57, 97, 98, 99, 100, 101, 102 >>

\* b.toString(16) without the padStart
ByteToHexNoPad(b) ==
  IF b < 16 THEN << HexDigits[b + 1] >>
  ELSE << HexDigits[(b \div 16) + 1], HexDigits[(b % 16) + 1] >>

\* b.toString(16).padStart(2, '0')
ByteToHex(b) ==
  LET digits == IF b < 16 THEN << HexDigits[b + 1] >>
                ELSE << HexDigits[(b \div 16) + 1], HexDigits[(b % 16) + 1] >>
  IN IF Len(digits) < 2 THEN << "0" >> \o digits ELSE digits

RECURSIVE ToHex(_)
ToHex(bytes) ==
  IF bytes = <<>> THEN <<>> ELSE ByteToHex(Head(bytes)) \o ToHex(Tail(bytes))

\* new TextEncoder().encode(s) for the ASCII strings the pipeline encodes
CharCode(c) ==
  IF \E i \in 1..16 : HexDigits[i] = c
  THEN HexCodes[CHOOSE i \in 1..16 : HexDigits[i] = c]
  ELSE 63

TextEncode(s) == [i \in 1..Len(s) |-> CharCode(s[i])]

(***************************************************************************)
(* Ideal Web Crypto primitives (crypto.subtle).  A CryptoKey is the record  *)
(* of its algorithm, its type and the identity of the pair it belongs to;   *)
(* an AES key is its raw bytes.                                             *)
(***************************************************************************)
RsaOaep == "RSA-OAEP"
RsaSsa == "RSASSA-PKCS1-v1_5"

KeyPair(alg, id) ==
  [ publicKey |-> [alg |-> alg, type |-> "public", id |-> id],
    privateKey |-> [alg |-> alg, type |-> "private", id |-> id] ]

generateEncryptionKeyPair == KeyPair(RsaOaep, 1)

generateSigningKeyPair == KeyPair(RsaSsa, 2)

\* crypto.subtle.digest('SHA-256', bytes): a fixed-length digest, injective
\* on the payloads of the model
SubtleDigest(bytes) ==
  [i \in 1..DigestBytes |-> (SumSeq(bytes) * i + Len(bytes)) % 256]

\* crypto.subtle.sign({name: RSASSA-PKCS1-v1_5}, key, data)
SubtleSign(key, data) ==
  IF key.alg = RsaSsa /\ key.type = "private"
  THEN Ok(<< key.id >> \o data)
  ELSE Throw("InvalidAccessError")

\* a verify that checks the signed data and not the key that signed it
SubtleVerifyAnyKey(key, sig, data) ==
  IF key.alg = RsaSsa /\ key.type = "public"
  THEN Ok(Len(sig) > 0 /\ Tail(sig) = data)
  ELSE Throw("InvalidAccessError")

\* crypto.subtle.verify({name: RSASSA-PKCS1-v1_5}, key, sig, data)
SubtleVerify(key, sig, data) ==
  IF key.alg = RsaSsa /\ key.type = "public"
  THEN Ok(sig = << key.id >> \o data)
  ELSE Throw("InvalidAccessError")

\* crypto.subtle.encrypt({name: RSA-OAEP}, key, data)
SubtleRsaEncrypt(key, data) ==
  IF key.alg = RsaOaep /\ key.type = "public"
  THEN Ok(<< key.id >> \o data)
  ELSE Throw("InvalidAccessError")

\* crypto.subtle.decrypt({name: RSA-OAEP}, key, data)
SubtleRsaDecrypt(key, data) ==
  IF key.alg = RsaOaep /\ key.type = "private"
  THEN IF Len(data) > 0 /\ data[1] = key.id
       THEN Ok(Tail(data))
       ELSE Throw("OperationError")
  ELSE Throw("InvalidAccessError")

\* the authentication tag of an ideal cipher: a function of key, iv and
\* data none of whose bytes is zero, so that no tag ends in the zero bytes
\* that 'AAAAAAA=' decodes to
GcmTag(key, iv, data) ==
  [i \in 1..GcmTagBytes |->
     1 + ((key[1] + iv[1] + SumSeq(data) * i + Len(data)) % 255)]

GcmMask(key, iv) == (key[1] + iv[1]) % 256

\* crypto.subtle.encrypt({name: AES-GCM, iv}, key, data): body and tag
SubtleGcmEncrypt(key, iv, data) ==
  [i \in 1..Len(data) |-> (data[i] + GcmMask(key, iv)) % 256]
  \o GcmTag(key, iv, data)

\* an AES-GCM decryption that returns the data without checking the tag
SubtleGcmDecryptNoTag(key, iv, ct) ==
  IF Len(ct) < GcmTagBytes THEN Throw("OperationError")
  ELSE LET n == Len(ct) - GcmTagBytes
       IN Ok([i \in 1..n |-> (ct[i] + 256 - GcmMask(key, iv)) % 256])

\* crypto.subtle.decrypt({name: AES-GCM, iv}, key, ct): fails closed
SubtleGcmDecrypt(key, iv, ct) ==
  IF Len(ct) < GcmTagBytes THEN Throw("OperationError")
  ELSE LET n == Len(ct) - GcmTagBytes
           data == [i \in 1..n |-> (ct[i] + 256 - GcmMask(key, iv)) % 256]
       IN IF SubtleGcmEncrypt(key, iv, data) = ct
          THEN Ok(data)
          ELSE Throw("OperationError")

(***************************************************************************)
(* utils/rsa.ts                                                             *)
(***************************************************************************)
signBytes(privateKey, data) ==
  LET sig == SubtleSign(privateKey, data)
  IN IF sig.ok THEN Ok(arrayBufferToBase64(sig.val)) ELSE sig

\* verifyBytes answering false where the decoding of the signature throws
verifyBytesLenient(publicKey, data, b64sig) ==
  LET sig == base64ToArrayBuffer(b64sig)
  IN IF sig.ok THEN SubtleVerify(publicKey, sig.val, data) ELSE Ok(FALSE)

verifyBytes(publicKey, data, b64sig) ==
  LET sig == base64ToArrayBuffer(b64sig)
  IN IF sig.ok THEN SubtleVerify(publicKey, sig.val, data) ELSE sig

\* generateAesKey: the n-th fresh 256-bit key
generateAesKey(n) == [i \in 1..(AesKeyBits \div 8) |-> IF i = 1 THEN n ELSE 0]

\* crypto.getRandomValues(new Uint8Array(12)): the r-th fresh draw
RandomIv(r) == [i \in 1..IvBytes |-> r]

\* aesEncrypt returning an iv that is not the one it encrypted under
aesEncryptOtherIv(key, data, r) ==
  LET iv == RandomIv(r)
  IN [iv |-> RandomIv(r + 1), ciphertext |-> SubtleGcmEncrypt(key, iv, data)]

aesEncrypt(key, data, r) ==
  LET iv == RandomIv(r)
  IN [iv |-> iv, ciphertext |-> SubtleGcmEncrypt(key, iv, data)]

aesDecrypt(key, iv, ciphertext) == SubtleGcmDecrypt(key, iv, ciphertext)

exportAesKeyRaw(key) == key

importAesKeyRaw(raw) ==
  IF Len(raw) * 8 \in {128, 192, 256} THEN Ok(raw) ELSE Throw("DataError")

\* crypto.subtle.exportKey("jwk", key): the fields in the order produced
exportJwk(key) ==
  << <<"kty", "RSA">>, <<"n", key.id>>, <<"e", "AQAB">>,
     <<"alg", key.alg>>, <<"ext", "true">>,
     <<"key_ops", key.type>> >>
  \o (IF key.type = "private" THEN << <<"d", key.id>> >> ELSE <<>>)

exportPublicKeyJwk(key) == exportJwk(key)

exportPrivateKeyJwk(key) == exportJwk(key)

(***************************************************************************)
(* components/KeyViewer.tsx, AgentCard.tsx: prettyPrintJwk                  *)
(***************************************************************************)
\* the UTF-16 code units of the field names of an RSA JsonWebKey
CodeUnits(name) ==
  CASE name = "alg" -> << 97, 108, 103 >>
    [] name = "d" -> << 100 >>
    [] name = "e" -> << 101 >>
    [] name = "ext" -> << 101, 120, 116 >>
    [] name = "key_ops" -> << 107, 101, 121, 95, 111, 112, 115 >>
    [] name = "kty" -> << 107, 116, 121 >>
    [] name = "n" -> << 110 >>

\* the default comparison of Array.prototype.sort: by code units
CodeUnitLess(a, b) ==
  LET x == CodeUnits(a)
      y == CodeUnits(b)
  IN \E k \in 1..(Len(y)) :
       /\ \A i \in 1..(k - 1) : i <= Len(x) /\ x[i] = y[i]
       /\ k > Len(x) \/ (k <= Len(x) /\ x[k] < y[k])
       /\ k - 1 <= Len(x)

\* Object.keys(jwk): the field names in the order the fields were made
ObjectKeys(jwk) == [i \in 1..Len(jwk) |-> jwk[i][1]]

\* names.sort(): insertion of each name after the names not above it
RECURSIVE SortNames(_)
SortNames(names) ==
  IF names = <<>> THEN <<>>
  ELSE LET rest == SortNames(Tail(names))
           x == Head(names)
           below == { i \in 1..Len(rest) : CodeUnitLess(rest[i], x) }
           k == Cardinality(below)
       IN SubSeq(rest, 1, k) \o << x >> \o SubSeq(rest, k + 1, Len(rest))

\* the value of field name in jwk
JwkField(jwk, name) ==
  jwk[CHOOSE i \in 1..Len(jwk) : jwk[i][1] = name]

\* JSON.stringify(jwk, null, 2): the fields in the order they were made
prettyPrintJwkUnsorted(jwk) == jwk

\* JSON.stringify(jwk, Object.keys(jwk).sort(), 2): one line for each name
\* of the property list that the object has, in the order of the list
prettyPrintJwk(jwk) ==
  LET list == SortNames(ObjectKeys(jwk))
  IN [i \in 1..Len(list) |-> JwkField(jwk, list[i])]

(***************************************************************************)
(* State of the DocSign App component (App.tsx:24-31), the clock, the       *)
(* entropy consumed so far, and the handler calls in flight.                *)
(***************************************************************************)
VARIABLES
  initPc,         \* position of the init effect (App.tsx:33-42)
  encKeys,        \* useState encKeys: None or Some(key pair)
  sigKeys,        \* useState sigKeys: None or Some(key pair)
  pubJwk,         \* useState pubJwk
  privJwk,        \* useState privJwk
  events,         \* useState events: the document log, newest first
  encryptToSelf,  \* useState encryptToSelf
  tamper,         \* useState tamper
  now,            \* the last value read from Date.now()
  nextId,         \* number of crypto.randomUUID() values drawn
  nextAes,        \* number of AES keys generated
  calls,          \* the handler calls suspended at an await, oldest first
  rejected,       \* the handler calls whose promise rejected (unhandled)
  nOps,           \* number of onVerify and onDecrypt calls issued
  probe,          \* arguments and result of a helper applied in isolation
  attempted,      \* history: the onVerify and onDecrypt calls that completed
  alice,          \* messenger (part_002:20): None or Some(agent keys)
  bob,            \* messenger (part_002:21)
  message,        \* messenger (part_002:24): the text Alice typed
  history,        \* messenger (part_002:25): the chat, oldest first
  agents,         \* legacy messenger (part_003:43): None or Some(key pairs)
  messages,       \* legacy messenger (part_003:50): the chat, oldest first
  inputMessage,   \* legacy messenger (part_003:51)
  gameMode        \* legacy messenger (part_003:53)

\* the state of the two messenger components
messengerVars == << alice, bob, message, history >>

legacyVars == << agents, messages, inputMessage, gameMode >>

vars == << initPc, encKeys, sigKeys, pubJwk, privJwk, events, encryptToSelf,
           tamper, now, nextId, nextAes, calls, rejected, nOps, probe,
           attempted, messengerVars, legacyVars >>

\* the messenger components are not mounted
NoMessenger ==
  /\ alice = None
  /\ bob = None
  /\ message = <<>>
  /\ history = <<>>
  /\ agents = None
  /\ messages = <<>>
  /\ inputMessage = <<>>
  /\ gameMode = FALSE

\* the files a user can choose
Files == { [name |-> "a.txt", bytes |-> << 120, 9 >>] }

NoFile == [name |-> "", bytes |-> <<>>]

\* an id that crypto.randomUUID() never returned
NoSuchId == 0

\* no call of verifyBytes outside the handlers
NoProbe ==
  [ fn |-> "none", key |-> generateSigningKeyPair.publicKey, data |-> <<>>,
    arg |-> <<>>, done |-> FALSE, out |-> Ok(FALSE) ]

\* 'AAAAAAA='
TamperTail == << "A", "A", "A", "A", "A", "A", "A", "=" >>

\* s.slice(0, -n)
SliceOff(str, n) ==
  IF Len(str) > n THEN SubSeq(str, 1, Len(str) - n) ELSE <<>>

\* the corruption of onFile with a tail one character short of the window
TamperCiphertextShortTail(tamperFlag, ciphertext) ==
  IF tamperFlag /\ Len(ciphertext) > TamperWindow
  THEN SliceOff(ciphertext, TamperWindow)
       \o SubSeq(TamperTail, 1, TamperWindow - 1)
  ELSE ciphertext

\* the corruption of onFile without its guard on the length
TamperCiphertextNoFloor(tamperFlag, ciphertext) ==
  IF tamperFlag
  THEN SliceOff(ciphertext, TamperWindow) \o TamperTail
  ELSE ciphertext

\* App.tsx:62-64: ciphertext.slice(0, -8) + 'AAAAAAA=' under its guard
TamperCiphertext(tamperFlag, ciphertext) ==
  IF tamperFlag /\ Len(ciphertext) > TamperWindow
  THEN SubSeq(ciphertext, 1, Len(ciphertext) - TamperWindow) \o TamperTail
  ELSE ciphertext

\* EncryptArtifacts with the iv left out of the record
EncryptArtifactsNoIv(bytes, ek, encFlag, tamperFlag, aesIndex, r) ==
  IF encFlag
  THEN LET aes == generateAesKey(aesIndex)
           enc == aesEncrypt(aes, bytes, r)
           rawAes == exportAesKeyRaw(aes)
           wrapped == SubtleRsaEncrypt(ek.publicKey, rawAes)
       IN IF wrapped.ok
          THEN Ok([ ciphertext |->
                      Some(TamperCiphertext(tamperFlag,
                                            arrayBufferToBase64(enc.ciphertext))),
                    iv |-> None,
                    wrappedKey |-> Some(arrayBufferToBase64(wrapped.val)) ])
          ELSE wrapped
  ELSE Ok([ciphertext |-> None, iv |-> None, wrappedKey |-> None])

\* EncryptArtifacts with one symmetric key and one iv kept for the session
EncryptArtifactsSessionKey(bytes, ek, encFlag, tamperFlag, aesIndex, r) ==
  IF encFlag
  THEN LET aes == generateAesKey(1)
           enc == aesEncrypt(aes, bytes, 1)
           rawAes == exportAesKeyRaw(aes)
           wrapped == SubtleRsaEncrypt(ek.publicKey, rawAes)
       IN IF wrapped.ok
          THEN Ok([ ciphertext |->
                      Some(TamperCiphertext(tamperFlag,
                                            arrayBufferToBase64(enc.ciphertext))),
                    iv |-> Some(arrayBufferToBase64(enc.iv)),
                    wrappedKey |-> Some(arrayBufferToBase64(wrapped.val)) ])
          ELSE wrapped
  ELSE Ok([ciphertext |-> None, iv |-> None, wrappedKey |-> None])

\* App.tsx:54-65: the three optional artifacts of a submission
EncryptArtifacts(bytes, ek, encFlag, tamperFlag, aesIndex, r) ==
  IF encFlag
  THEN LET aes == generateAesKey(aesIndex)
           enc == aesEncrypt(aes, bytes, r)
           rawAes == exportAesKeyRaw(aes)
           wrapped == SubtleRsaEncrypt(ek.publicKey, rawAes)
       IN IF wrapped.ok
          THEN Ok([ ciphertext |->
                      Some(TamperCiphertext(tamperFlag,
                                            arrayBufferToBase64(enc.ciphertext))),
                    iv |-> Some(arrayBufferToBase64(enc.iv)),
                    wrappedKey |-> Some(arrayBufferToBase64(wrapped.val)) ])
          ELSE wrapped
  ELSE Ok([ciphertext |-> None, iv |-> None, wrappedKey |-> None])

\* BuildEvent with the clock value taken as the id of the record
BuildEventClockId(file, ek, sk, encFlag, tamperFlag, uuid, aesIndex, r, t) ==
  LET bytes == file.bytes
      digest == SubtleDigest(bytes)
      shaHex == ToHex(digest)
      signature == signBytes(sk.privateKey, TextEncode(shaHex))
      art == EncryptArtifacts(bytes, ek, encFlag, tamperFlag, aesIndex, r)
  IN IF ~signature.ok THEN signature
     ELSE IF ~art.ok THEN art
     ELSE Ok([ id |-> t + 1,
               filename |-> file.name,
               size |-> Len(bytes),
               sha256 |-> shaHex,
               signature |-> Some(signature.val),
               ciphertext |-> art.val.ciphertext,
               iv |-> art.val.iv,
               wrappedKey |-> art.val.wrappedKey,
               decryptedOk |-> None,
               authentic |-> None,
               tampered |-> None,
               createdAt |-> t ])

\* BuildEvent signing the raw digest bytes instead of their hex string
BuildEventSignsDigest(file, ek, sk, encFlag, tamperFlag, uuid, aesIndex, r, t) ==
  LET bytes == file.bytes
      digest == SubtleDigest(bytes)
      shaHex == ToHex(digest)
      signature == signBytes(sk.privateKey, digest)
      art == EncryptArtifacts(bytes, ek, encFlag, tamperFlag, aesIndex, r)
  IN IF ~signature.ok THEN signature
     ELSE IF ~art.ok THEN art
     ELSE Ok([ id |-> uuid,
               filename |-> file.name,
               size |-> Len(bytes),
               sha256 |-> shaHex,
               signature |-> Some(signature.val),
               ciphertext |-> art.val.ciphertext,
               iv |-> art.val.iv,
               wrappedKey |-> art.val.wrappedKey,
               decryptedOk |-> None,
               authentic |-> None,
               tampered |-> None,
               createdAt |-> t ])

\* BuildEvent with the verification outcome initialised to false
BuildEventForgedDefault(file, ek, sk, encFlag, tamperFlag, uuid, aesIndex, r, t) ==
  LET bytes == file.bytes
      digest == SubtleDigest(bytes)
      shaHex == ToHex(digest)
      signature == signBytes(sk.privateKey, TextEncode(shaHex))
      art == EncryptArtifacts(bytes, ek, encFlag, tamperFlag, aesIndex, r)
  IN IF ~signature.ok THEN signature
     ELSE IF ~art.ok THEN art
     ELSE Ok([ id |-> uuid,
               filename |-> file.name,
               size |-> Len(bytes),
               sha256 |-> shaHex,
               signature |-> Some(signature.val),
               ciphertext |-> art.val.ciphertext,
               iv |-> art.val.iv,
               wrappedKey |-> art.val.wrappedKey,
               decryptedOk |-> None,
               authentic |-> Some(FALSE),
               tampered |-> None,
               createdAt |-> t ])

\* App.tsx:46-76: the record built by onFile, or the error it throws
BuildEvent(file, ek, sk, encFlag, tamperFlag, uuid, aesIndex, r, t) ==
  LET bytes == file.bytes
      digest == SubtleDigest(bytes)
      shaHex == ToHex(digest)
      signature == signBytes(sk.privateKey, TextEncode(shaHex))
      art == EncryptArtifacts(bytes, ek, encFlag, tamperFlag, aesIndex, r)
  IN IF ~signature.ok THEN signature
     ELSE IF ~art.ok THEN art
     ELSE Ok([ id |-> uuid,
               filename |-> file.name,
               size |-> Len(bytes),
               sha256 |-> shaHex,
               signature |-> Some(signature.val),
               ciphertext |-> art.val.ciphertext,
               iv |-> art.val.iv,
               wrappedKey |-> art.val.wrappedKey,
               decryptedOk |-> None,
               authentic |-> None,
               tampered |-> None,
               createdAt |-> t ])

\* current.findIndex((e) => e.id === id), 0 for -1
FindIndex(current, id) ==
  IF \E i \in 1..Len(current) : current[i].id = id
  THEN CHOOSE i \in 1..Len(current) :
         /\ current[i].id = id
         /\ \A j \in 1..(i - 1) : current[j].id # id
  ELSE 0

\* a JavaScript falsy test of an optional string
Falsy(o) == o = None \/ o[1] = <<>>

\* e.signature || ''
OrEmpty(o) == IF Falsy(o) THEN <<>> ELSE o[1]

\* onVerify without its catch block: the error of verifyBytes propagates
VerifyRecordNoCatch(e, sk) ==
  LET shaBytes == TextEncode(e.sha256)
      ok == verifyBytes(sk.publicKey, shaBytes, OrEmpty(e.signature))
  IN IF ok.ok
     THEN Ok([e EXCEPT !.authentic = Some(ok.val)])
     ELSE ok

\* onVerify consuming the signature of the record it has checked
VerifyRecordOnce(e, sk) ==
  LET shaBytes == TextEncode(e.sha256)
      ok == verifyBytes(sk.publicKey, shaBytes, OrEmpty(e.signature))
  IN IF ok.ok
     THEN Ok([e EXCEPT !.authentic = Some(ok.val), !.signature = None])
     ELSE Ok([e EXCEPT !.authentic = Some(FALSE), !.signature = None])

\* App.tsx:86-93: the try/catch of onVerify: the record it writes for e
VerifyRecord(e, sk) ==
  LET shaBytes == TextEncode(e.sha256)
      ok == verifyBytes(sk.publicKey, shaBytes, OrEmpty(e.signature))
  IN IF ok.ok
     THEN Ok([e EXCEPT !.authentic = Some(ok.val)])
     ELSE Ok([e EXCEPT !.authentic = Some(FALSE)])

\* App.tsx:105-107: the body of the try block of onDecrypt
DecryptTry(e, ek) ==
  LET wk == base64ToArrayBuffer(e.wrappedKey[1])
  IN IF ~wk.ok THEN wk
     ELSE LET rawAes == SubtleRsaDecrypt(ek.privateKey, wk.val)
          IN IF ~rawAes.ok THEN rawAes
             ELSE LET aes == importAesKeyRaw(rawAes.val)
                  IN IF ~aes.ok THEN aes
                     ELSE LET iv == base64ToArrayBuffer(e.iv[1])
                          IN IF ~iv.ok THEN iv
                             ELSE LET ct == base64ToArrayBuffer(e.ciphertext[1])
                                  IN IF ~ct.ok THEN ct
                                     ELSE aesDecrypt(aes.val, iv.val, ct.val)

\* the key unwrap of onDecrypt (App.tsx:105) fails on the stored wrappedKey
UnwrapFails(e, ek) ==
  LET wk == base64ToArrayBuffer(e.wrappedKey[1])
  IN wk.ok /\ ~SubtleRsaDecrypt(ek.privateKey, wk.val).ok

\* the key unwraps and imports, and the authenticated decryption of
\* onDecrypt (App.tsx:107) fails on the stored iv and ciphertext
TagFails(e, ek) ==
  LET wk == base64ToArrayBuffer(e.wrappedKey[1])
      iv == base64ToArrayBuffer(e.iv[1])
      ct == base64ToArrayBuffer(e.ciphertext[1])
  IN /\ wk.ok /\ iv.ok /\ ct.ok
     /\ LET rawAes == SubtleRsaDecrypt(ek.privateKey, wk.val)
        IN /\ rawAes.ok
           /\ importAesKeyRaw(rawAes.val).ok
           /\ ~aesDecrypt(rawAes.val, iv.val, ct.val).ok

\* onDecrypt with a catch that marks only a failed tag as tampering
DecryptRecordByKind(e, ek) ==
  IF DecryptTry(e, ek).ok
  THEN Ok([e EXCEPT !.decryptedOk = Some(TRUE)])
  ELSE IF UnwrapFails(e, ek)
  THEN Ok([e EXCEPT !.decryptedOk = Some(FALSE)])
  ELSE Ok([e EXCEPT !.decryptedOk = Some(FALSE), !.tampered = Some(TRUE)])

\* App.tsx:104-111: the try/catch of onDecrypt: the record it writes for e
DecryptRecord(e, ek) ==
  IF DecryptTry(e, ek).ok
  THEN Ok([e EXCEPT !.decryptedOk = Some(TRUE)])
  ELSE Ok([e EXCEPT !.decryptedOk = Some(FALSE), !.tampered = Some(TRUE)])

(***************************************************************************)
(* Handler calls.  A call is issued against the render that is current: it *)
(* captures that render's state (its closure), runs to its first await, and *)
(* its continuation runs later, after any other handler.                    *)
(***************************************************************************)
FileCall(file) ==
  [ kind |-> "file", id |-> NoSuchId, file |-> file, current |-> <<>>,
    idx |-> 0, encKeys |-> encKeys, sigKeys |-> sigKeys,
    encryptToSelf |-> encryptToSelf, tamper |-> tamper ]

\* onVerify and onDecrypt read events and the keys of their render only
LookupCall(kind, id, current, idx) ==
  [ kind |-> kind, id |-> id, file |-> NoFile, current |-> current,
    idx |-> idx, encKeys |-> encKeys, sigKeys |-> sigKeys,
    encryptToSelf |-> TRUE, tamper |-> FALSE ]

\* a handler call whose promise rejected with error err
Rejection(kind, id, err) == [kind |-> kind, id |-> id, err |-> err]

InFlight(kinds) == Cardinality({c \in 1..Len(calls) : calls[c].kind \in kinds})

Remove(c) == SubSeq(calls, 1, c - 1) \o SubSeq(calls, c + 1, Len(calls))

\* the n-th completion of a call of this kind on record id
Completion(kind, id) ==
  << kind, id,
     Cardinality({a \in attempted : a[1] = kind /\ a[2] = id}) + 1 >>

\* calls issued so far: records submitted, submissions suspended, lookups
Issued == nextId + InFlight({"file"}) + nOps

Init ==
  /\ initPc = "generating"
  /\ encKeys = None
  /\ sigKeys = None
  /\ pubJwk = None
  /\ privJwk = None
  /\ events = <<>>
  /\ encryptToSelf = TRUE
  /\ tamper = FALSE
  /\ now = 0
  /\ nextId = 0
  /\ nextAes = 0
  /\ calls = <<>>
  /\ rejected = {}
  /\ nOps = 0
  /\ probe = NoProbe
  /\ attempted = {}
  /\ NoMessenger

\* the init effect running a second time and generating new key pairs
InitKeysGeneratedTwice ==
  /\ initPc \in { "generating", "rerun" }
  /\ LET e == IF initPc = "generating" THEN generateEncryptionKeyPair
                                       ELSE KeyPair(RsaOaep, 3)
         sk == IF initPc = "generating" THEN generateSigningKeyPair
                                        ELSE KeyPair(RsaSsa, 4)
     IN /\ encKeys' = Some(e)
        /\ sigKeys' = Some(sk)
        /\ pubJwk' = Some(exportPublicKeyJwk(e.publicKey))
        /\ privJwk' = Some(exportPrivateKeyJwk(e.privateKey))
  /\ initPc' = IF initPc = "generating" THEN "rerun" ELSE "done"
  /\ UNCHANGED << events, encryptToSelf, tamper, now, nextId, nextAes,
                  calls, rejected, nOps, probe, attempted >>
  /\ UNCHANGED << messengerVars, legacyVars >>

\* App.tsx:33-42: the init effect.  Both pairs are generated and both
\* states set in one turn; the two JWK exports that follow write display
\* state that no handler reads, and are folded into the same step.
InitKeysGenerated ==
  /\ initPc = "generating"
  /\ LET e == generateEncryptionKeyPair
         sk == generateSigningKeyPair
     IN /\ encKeys' = Some(e)
        /\ sigKeys' = Some(sk)
        /\ pubJwk' = Some(exportPublicKeyJwk(e.publicKey))
        /\ privJwk' = Some(exportPrivateKeyJwk(e.privateKey))
  /\ initPc' = "done"
  /\ UNCHANGED << events, encryptToSelf, tamper, now, nextId, nextAes,
                  calls, rejected, nOps, probe, attempted >>
  /\ UNCHANGED << messengerVars, legacyVars >>

\* App.tsx:122
SetEncryptToSelf ==
  /\ encryptToSelf' = ~encryptToSelf
  /\ UNCHANGED << initPc, encKeys, sigKeys, pubJwk, privJwk, events, tamper,
                  now, nextId, nextAes, calls, rejected, nOps, probe, attempted >>
  /\ UNCHANGED << messengerVars, legacyVars >>

\* App.tsx:126
SetTamper ==
  /\ tamper' = ~tamper
  /\ UNCHANGED << initPc, encKeys, sigKeys, pubJwk, privJwk, events,
                  encryptToSelf, now, nextId, nextAes, calls, rejected,
                  nOps, probe, attempted >>
  /\ UNCHANGED << messengerVars, legacyVars >>

\* App.tsx:44-46: onFile up to its first await
OnFileStart(file) ==
  /\ Issued < MaxCalls
  /\ calls' = IF encKeys = None \/ sigKeys = None
              THEN calls
              ELSE Append(calls, FileCall(file))
  /\ UNCHANGED << initPc, encKeys, sigKeys, pubJwk, privJwk, events,
                  encryptToSelf, tamper, now, nextId, nextAes, rejected,
                  nOps, probe, attempted >>
  /\ UNCHANGED << messengerVars, legacyVars >>

\* onFile putting its record at the end of the log: [...prev, evt]
OnFileDoneAppends(c) ==
  /\ calls[c].kind = "file"
  /\ calls' = Remove(c)
  /\ \E t \in {u \in {now, now + 1} : u <= MaxNow} :
       LET evt == BuildEvent(calls[c].file, calls[c].encKeys[1],
                             calls[c].sigKeys[1], calls[c].encryptToSelf,
                             calls[c].tamper, nextId + 1, nextAes + 1,
                             nextAes + 1, t)
       IN IF evt.ok
          THEN /\ events' = events \o << evt.val >>
               /\ now' = t
               /\ nextId' = nextId + 1
               /\ nextAes' = IF calls[c].encryptToSelf
                             THEN nextAes + 1 ELSE nextAes
               /\ UNCHANGED rejected
          ELSE /\ rejected' = rejected \cup
                                { Rejection("file", NoSuchId, evt.err) }
               /\ UNCHANGED << events, now, nextId, nextAes >>
  /\ UNCHANGED << initPc, encKeys, sigKeys, pubJwk, privJwk, encryptToSelf,
                  tamper, nOps, probe, attempted >>
  /\ UNCHANGED << messengerVars, legacyVars >>

\* App.tsx:46-77: the rest of onFile; setEvents((prev) => [evt, ...prev])
OnFileDone(c) ==
  /\ calls[c].kind = "file"
  /\ calls' = Remove(c)
  /\ \E t \in {u \in {now, now + 1} : u <= MaxNow} :
       LET evt == BuildEvent(calls[c].file, calls[c].encKeys[1],
                             calls[c].sigKeys[1], calls[c].encryptToSelf,
                             calls[c].tamper, nextId + 1, nextAes + 1,
                             nextAes + 1, t)
       IN IF evt.ok
          THEN /\ events' = << evt.val >> \o events
               /\ now' = t
               /\ nextId' = nextId + 1
               /\ nextAes' = IF calls[c].encryptToSelf
                             THEN nextAes + 1 ELSE nextAes
               /\ UNCHANGED rejected
          ELSE /\ rejected' = rejected \cup
                                { Rejection("file", NoSuchId, evt.err) }
               /\ UNCHANGED << events, now, nextId, nextAes >>
  /\ UNCHANGED << initPc, encKeys, sigKeys, pubJwk, privJwk, encryptToSelf,
                  tamper, nOps, probe, attempted >>
  /\ UNCHANGED << messengerVars, legacyVars >>

\* onVerify throwing RecordNotFound where the code returns
OnVerifyStartThrows(id) ==
  /\ Issued < MaxCalls
  /\ nOps' = nOps + 1
  /\ LET current == events
         idx == FindIndex(current, id)
     IN IF sigKeys = None
        THEN UNCHANGED << calls, rejected >>
        ELSE IF idx = 0
        THEN /\ rejected' = rejected \cup
                              { Rejection("verify", id, "RecordNotFound") }
             /\ UNCHANGED calls
        ELSE /\ calls' = Append(calls, LookupCall("verify", id, current, idx))
             /\ UNCHANGED rejected
  /\ UNCHANGED << initPc, encKeys, sigKeys, pubJwk, privJwk, events,
                  encryptToSelf, tamper, now, nextId, nextAes, probe, attempted >>
  /\ UNCHANGED << messengerVars, legacyVars >>

\* App.tsx:80-89: onVerify up to its await
OnVerifyStart(id) ==
  /\ Issued < MaxCalls
  /\ nOps' = nOps + 1
  /\ LET current == events
         idx == FindIndex(current, id)
     IN calls' = IF sigKeys = None \/ idx = 0
                 THEN calls
                 ELSE Append(calls, LookupCall("verify", id, current, idx))
  /\ UNCHANGED << initPc, encKeys, sigKeys, pubJwk, privJwk, events,
                  encryptToSelf, tamper, now, nextId, nextAes, rejected,
                  probe, attempted >>
  /\ UNCHANGED << messengerVars, legacyVars >>

\* App.tsx:89-94: after the await; setEvents(current)
OnVerifyDone(c) ==
  /\ calls[c].kind = "verify"
  /\ calls' = Remove(c)
  /\ attempted' = attempted \cup { Completion("verify", calls[c].id) }
  /\ LET current == calls[c].current
         idx == calls[c].idx
         res == VerifyRecord(current[idx], calls[c].sigKeys[1])
     IN IF res.ok
        THEN /\ events' = [current EXCEPT ![idx] = res.val]
             /\ UNCHANGED rejected
        ELSE /\ rejected' = rejected \cup
                              { Rejection("verify", calls[c].id, res.err) }
             /\ UNCHANGED events
  /\ UNCHANGED << initPc, encKeys, sigKeys, pubJwk, privJwk, encryptToSelf,
                  tamper, now, nextId, nextAes, nOps, probe >>
  /\ UNCHANGED << messengerVars, legacyVars >>

\* onDecrypt marking a record without artifacts as failed instead of
\* returning
OnDecryptStartMarksFailed(id) ==
  /\ Issued < MaxCalls
  /\ nOps' = nOps + 1
  /\ LET current == events
         idx == FindIndex(current, id)
     IN IF encKeys = None \/ idx = 0
        THEN calls' = calls /\ events' = events
        ELSE IF \/ Falsy(current[idx].ciphertext)
                \/ Falsy(current[idx].iv)
                \/ Falsy(current[idx].wrappedKey)
        THEN /\ calls' = calls
             /\ events' = [current EXCEPT ![idx].decryptedOk = Some(FALSE),
                                          ![idx].tampered = Some(TRUE)]
        ELSE /\ calls' = Append(calls, LookupCall("decrypt", id, current, idx))
             /\ events' = events
  /\ UNCHANGED << initPc, encKeys, sigKeys, pubJwk, privJwk,
                  encryptToSelf, tamper, now, nextId, nextAes, rejected,
                  probe, attempted >>
  /\ UNCHANGED << messengerVars, legacyVars >>

\* App.tsx:97-105: onDecrypt up to its first await
OnDecryptStart(id) ==
  /\ Issued < MaxCalls
  /\ nOps' = nOps + 1
  /\ LET current == events
         idx == FindIndex(current, id)
     IN IF \/ encKeys = None
           \/ idx = 0
           \/ Falsy(current[idx].ciphertext)
           \/ Falsy(current[idx].iv)
           \/ Falsy(current[idx].wrappedKey)
        THEN calls' = calls
        ELSE calls' = Append(calls, LookupCall("decrypt", id, current, idx))
  /\ UNCHANGED << initPc, encKeys, sigKeys, pubJwk, privJwk, events,
                  encryptToSelf, tamper, now, nextId, nextAes, rejected,
                  probe, attempted >>
  /\ UNCHANGED << messengerVars, legacyVars >>

\* App.tsx:105-112: after the awaits; setEvents(current)
OnDecryptDone(c) ==
  /\ calls[c].kind = "decrypt"
  /\ calls' = Remove(c)
  /\ attempted' = attempted \cup { Completion("decrypt", calls[c].id) }
  /\ LET current == calls[c].current
         idx == calls[c].idx
         res == DecryptRecord(current[idx], calls[c].encKeys[1])
     IN IF res.ok
        THEN /\ events' = [current EXCEPT ![idx] = res.val]
             /\ UNCHANGED rejected
        ELSE /\ rejected' = rejected \cup
                              { Rejection("decrypt", calls[c].id, res.err) }
             /\ UNCHANGED events
  /\ UNCHANGED << initPc, encKeys, sigKeys, pubJwk, privJwk, encryptToSelf,
                  tamper, now, nextId, nextAes, nOps, probe >>
  /\ UNCHANGED << messengerVars, legacyVars >>

\* the ids a caller can pass: those of the log, and one that is in no log
CallIds == {events[i].id : i \in 1..Len(events)} \cup {NoSuchId}

Next ==
  \/ InitKeysGenerated
  \/ SetEncryptToSelf
  \/ SetTamper
  \/ \E file \in Files : OnFileStart(file)
  \/ \E c \in 1..Len(calls) : OnFileDone(c)
  \/ \E id \in CallIds : OnVerifyStart(id)
  \/ \E c \in 1..Len(calls) : OnVerifyDone(c)
  \/ \E id \in CallIds : OnDecryptStart(id)
  \/ \E c \in 1..Len(calls) : OnDecryptDone(c)

Spec == Init /\ [][Next]_vars

(***************************************************************************)
(* The handlers applied to stored records of every shape the DocEvent type  *)
(* admits: onVerify and onDecrypt are functions of the record they find and *)
(* of the session keys, and the records below exercise each step of their   *)
(* try blocks.                                                              *)
(***************************************************************************)
TheFile == CHOOSE f \in Files : TRUE

\* key pairs of another session
OtherEncryptionKeyPair == KeyPair(RsaOaep, 3)

OtherSigningKeyPair == KeyPair(RsaSsa, 4)

\* the record onFile stores for TheFile with encryption on and tamper off
StoredBase ==
  BuildEvent(TheFile, generateEncryptionKeyPair, generateSigningKeyPair,
             TRUE, FALSE, 1, 1, 1, 0).val

\* signature strings: absent, empty, not base64, of another key, truncated
StoredSignatures ==
  { None, Some(<<>>), Some(<< "*" >>), Some(<< "Q" >>),
    Some(signBytes(OtherSigningKeyPair.privateKey,
                   TextEncode(StoredBase.sha256)).val),
    Some(arrayBufferToBase64(<< 2 >>)) }

\* digest strings that are not the digest the signature was made over
StoredDigests == { ToHex(SubtleDigest(<< 7 >>)) }

\* wrappedKey strings: not base64, wrapped for another key pair, wrapping a
\* key of a wrong length, wrapping another AES key
StoredWrappedKeys ==
  { Some(<< "*", "*" >>),
    Some(arrayBufferToBase64(
           SubtleRsaEncrypt(OtherEncryptionKeyPair.publicKey,
                            exportAesKeyRaw(generateAesKey(1))).val)),
    Some(arrayBufferToBase64(
           SubtleRsaEncrypt(generateEncryptionKeyPair.publicKey,
                            << 1, 2, 3 >>).val)),
    Some(arrayBufferToBase64(
           SubtleRsaEncrypt(generateEncryptionKeyPair.publicKey,
                            exportAesKeyRaw(generateAesKey(2))).val)) }

\* iv strings: not base64, another iv
StoredIvs == { Some(<< "*" >>), Some(arrayBufferToBase64(RandomIv(2))) }

\* ciphertext strings: tampered as onFile does, not base64, shorter than a tag
StoredCiphertexts ==
  { Some(TamperCiphertext(TRUE, StoredBase.ciphertext[1])),
    Some(<< "*" >>),
    Some(arrayBufferToBase64(<< 1, 2, 3 >>)) }

StoredRecords ==
  { StoredBase,
    [StoredBase EXCEPT !.ciphertext = None, !.iv = None, !.wrappedKey = None] }
  \cup { [StoredBase EXCEPT !.signature = x] : x \in StoredSignatures }
  \cup { [StoredBase EXCEPT !.sha256 = x] : x \in StoredDigests }
  \cup { [StoredBase EXCEPT !.wrappedKey = x] : x \in StoredWrappedKeys }
  \cup { [StoredBase EXCEPT !.iv = x] : x \in StoredIvs }
  \cup { [StoredBase EXCEPT !.ciphertext = x] : x \in StoredCiphertexts }

\* the session after its keys were generated, holding one stored record
InitStored ==
  /\ initPc = "done"
  /\ encKeys = Some(generateEncryptionKeyPair)
  /\ sigKeys = Some(generateSigningKeyPair)
  /\ pubJwk = Some(exportPublicKeyJwk(generateEncryptionKeyPair.publicKey))
  /\ privJwk = Some(exportPrivateKeyJwk(generateEncryptionKeyPair.privateKey))
  /\ events \in { << r >> : r \in StoredRecords }
  /\ encryptToSelf = TRUE
  /\ tamper = FALSE
  /\ now = 0
  /\ nextId = 1
  /\ nextAes = 1
  /\ calls = <<>>
  /\ rejected = {}
  /\ nOps = 0
  /\ probe = NoProbe
  /\ attempted = {}
  /\ NoMessenger

NextStored ==
  \/ \E file \in Files : OnFileStart(file)
  \/ \E c \in 1..Len(calls) : OnFileDone(c)
  \/ \E id \in CallIds : OnVerifyStart(id)
  \/ \E c \in 1..Len(calls) : OnVerifyDone(c)
  \/ \E id \in CallIds : OnDecryptStart(id)
  \/ \E c \in 1..Len(calls) : OnDecryptDone(c)

SpecStored == InitStored /\ [][NextStored]_vars

(***************************************************************************)
(* One submission of every payload under every setting of the two flags:    *)
(* the session after its keys were generated, with onFile suspended at its  *)
(* first await, followed by verify and decrypt calls on the stored record.  *)
(***************************************************************************)
PayloadBytes == { 0, 120 }

\* every payload over PayloadBytes of at most MaxPayloadLen bytes
Payloads == UNION { [1..n -> PayloadBytes] : n \in 0..MaxPayloadLen }

PayloadFiles == { [name |-> "p.bin", bytes |-> b] : b \in Payloads }

InitPayloads ==
  /\ initPc = "done"
  /\ encKeys = Some(generateEncryptionKeyPair)
  /\ sigKeys = Some(generateSigningKeyPair)
  /\ pubJwk = Some(exportPublicKeyJwk(generateEncryptionKeyPair.publicKey))
  /\ privJwk = Some(exportPrivateKeyJwk(generateEncryptionKeyPair.privateKey))
  /\ events = <<>>
  /\ encryptToSelf \in BOOLEAN
  /\ tamper \in BOOLEAN
  /\ now = 0
  /\ nextId = 0
  /\ nextAes = 0
  /\ calls \in { << FileCall(file) >> : file \in PayloadFiles }
  /\ rejected = {}
  /\ nOps = 0
  /\ probe = NoProbe
  /\ attempted = {}
  /\ NoMessenger

NextPayloads ==
  \/ \E c \in 1..Len(calls) : OnFileDone(c)
  \/ \E id \in CallIds : OnVerifyStart(id)
  \/ \E c \in 1..Len(calls) : OnVerifyDone(c)
  \/ \E id \in CallIds : OnDecryptStart(id)
  \/ \E c \in 1..Len(calls) : OnDecryptDone(c)

SpecPayloads == InitPayloads /\ [][NextPayloads]_vars

(***************************************************************************)
(* The corruption step of the two applications: the one of onFile applied   *)
(* to strings of every length around its window, the one of sendFromAlice   *)
(* applied to the ciphertexts encryptString returns.                        *)
(***************************************************************************)
\* RSA-OAEP under a 2048-bit key: one block of the modulus length, for a
\* message of at most RsaOaepMaxBytes bytes
RsaOaepBlock(key, data) ==
  IF key.alg = RsaOaep /\ key.type = "public"
  THEN IF Len(data) > RsaOaepMaxBytes
       THEN Throw("OperationError")
       ELSE Ok(<< key.id >> \o data \o
               [i \in 1..(RsaModulusBytes - 1 - Len(data)) |-> 0])
  ELSE Throw("InvalidAccessError")

\* AgentCard.tsx:183-190
encryptString(publicKey, plaintext) ==
  LET encrypted == RsaOaepBlock(publicKey, TextEncode(plaintext))
  IN IF encrypted.ok THEN Ok(arrayBufferToBase64(encrypted.val))
     ELSE encrypted

\* part_002:54: tamper ? ciphertext.slice(0, -8) + 'AAAAAAA=' : ciphertext
MaybeTampered(tamperFlag, ciphertext) ==
  IF tamperFlag
  THEN SliceOff(ciphertext, TamperWindow) \o TamperTail
  ELSE ciphertext

\* the encryption key pair of Bob (part_002:39)
BobEncryptionKeyPair == KeyPair(RsaOaep, 5)

\* the non-empty messages Alice sends (part_002:51)
Messages == { << "a" >>, << "c", "a", "f", "e" >> }

TamperChars == { "Q", "=" }

\* every string over TamperChars of at most MaxTamperLen characters
TamperStrings == UNION { [1..n -> TamperChars] : n \in 0..MaxTamperLen }

InitTamper ==
  /\ initPc = "generating"
  /\ encKeys = None
  /\ sigKeys = None
  /\ pubJwk = None
  /\ privJwk = None
  /\ events = <<>>
  /\ encryptToSelf = TRUE
  /\ tamper \in BOOLEAN
  /\ now = 0
  /\ nextId = 0
  /\ nextAes = 0
  /\ calls = <<>>
  /\ rejected = {}
  /\ nOps = 0
  /\ probe \in { [NoProbe EXCEPT !.fn = "onFile", !.arg = str,
                                 !.out = Ok(<<>>)] :
                   str \in TamperStrings }
           \cup { [NoProbe EXCEPT !.fn = "sendFromAlice", !.arg = m,
                                    !.key = BobEncryptionKeyPair.publicKey,
                                    !.out = Ok(<<>>)] :
                    m \in Messages }
  /\ attempted = {}
  /\ NoMessenger

\* App.tsx:62-64 applied to the string probe.arg
OnFileTamperCall ==
  /\ ~probe.done
  /\ probe.fn = "onFile"
  /\ probe' = [probe EXCEPT !.done = TRUE,
                            !.out = Ok(TamperCiphertext(tamper, probe.arg))]
  /\ UNCHANGED << initPc, encKeys, sigKeys, pubJwk, privJwk, events,
                  encryptToSelf, tamper, now, nextId, nextAes, calls,
                  rejected, nOps, attempted >>
  /\ UNCHANGED << messengerVars, legacyVars >>

\* part_002:52-54 applied to the message probe.arg
SendFromAliceTamperCall ==
  /\ ~probe.done
  /\ probe.fn = "sendFromAlice"
  /\ LET ciphertext == encryptString(probe.key, probe.arg)
     IN probe' = [probe EXCEPT
                    !.done = TRUE,
                    !.out = IF ciphertext.ok
                            THEN Ok(MaybeTampered(tamper, ciphertext.val))
                            ELSE ciphertext]
  /\ UNCHANGED << initPc, encKeys, sigKeys, pubJwk, privJwk, events,
                  encryptToSelf, tamper, now, nextId, nextAes, calls,
                  rejected, nOps, attempted >>
  /\ UNCHANGED << messengerVars, legacyVars >>

NextTamper == OnFileTamperCall \/ SendFromAliceTamperCall

SpecTamper == InitTamper /\ [][NextTamper]_vars

(***************************************************************************)
(* verifyBytes applied to signature strings.                                *)
(***************************************************************************)
ProbeChars == { "A", "Q", "*", "=" }

\* every string over ProbeChars of at most MaxProbeLen characters
ProbeStrings == UNION { [1..n -> ProbeChars] : n \in 0..MaxProbeLen }

ProbeData == { TextEncode(StoredBase.sha256) } \cup
             { TextEncode(x) : x \in StoredDigests }

ProbeKeys == { generateSigningKeyPair.publicKey,
               OtherSigningKeyPair.publicKey }

\* the signatures made with either private key over either digest
ProbeSignatures ==
  { signBytes(k.privateKey, d).val :
      k \in { generateSigningKeyPair, OtherSigningKeyPair }, d \in ProbeData }

InitVerifyBytes ==
  /\ initPc = "generating"
  /\ encKeys = None
  /\ sigKeys = None
  /\ pubJwk = None
  /\ privJwk = None
  /\ events = <<>>
  /\ encryptToSelf = TRUE
  /\ tamper = FALSE
  /\ now = 0
  /\ nextId = 0
  /\ nextAes = 0
  /\ calls = <<>>
  /\ rejected = {}
  /\ nOps = 0
  /\ probe \in [ fn : {"verifyBytes"}, key : ProbeKeys, data : ProbeData,
                 arg : ProbeStrings \cup ProbeSignatures,
                 done : {FALSE}, out : {Ok(FALSE)} ]
  /\ attempted = {}
  /\ NoMessenger

\* rsa.ts:46-49: one call of verifyBytes and the settlement of its promise
VerifyBytesCall ==
  /\ ~probe.done
  /\ probe' = [probe EXCEPT !.done = TRUE,
                            !.out = verifyBytes(probe.key, probe.data,
                                                probe.arg)]
  /\ UNCHANGED << initPc, encKeys, sigKeys, pubJwk, privJwk, events,
                  encryptToSelf, tamper, now, nextId, nextAes, calls,
                  rejected, nOps, attempted >>
  /\ UNCHANGED << messengerVars, legacyVars >>

NextVerifyBytes == VerifyBytesCall

SpecVerifyBytes == InitVerifyBytes /\ [][NextVerifyBytes]_vars

(***************************************************************************)
(* The hex encoding of a digest (App.tsx:49, part_001:12) applied to byte   *)
(* sequences.                                                               *)
(***************************************************************************)
\* byte values on both sides of the one-digit boundary
HexProbeBytes == { 0, 9, 15, 16, 171, 255 }

\* the byte sequences encoded: every short one, and some of digest length
HexInputs ==
  UNION { [1..n -> HexProbeBytes] : n \in 0..MaxHexLen }
  \cup { [i \in 1..Sha256Bytes |-> IF i % 2 = 0 THEN a ELSE b] :
           a \in HexProbeBytes, b \in HexProbeBytes }

InitHex ==
  /\ initPc = "generating"
  /\ encKeys = None
  /\ sigKeys = None
  /\ pubJwk = None
  /\ privJwk = None
  /\ events = <<>>
  /\ encryptToSelf = TRUE
  /\ tamper = FALSE
  /\ now = 0
  /\ nextId = 0
  /\ nextAes = 0
  /\ calls = <<>>
  /\ rejected = {}
  /\ nOps = 0
  /\ probe \in [ fn : {"toHex"}, key : {generateSigningKeyPair.publicKey},
                 data : HexInputs, arg : {<<>>},
                 done : {FALSE}, out : {Ok(<<>>)} ]
  /\ attempted = {}
  /\ NoMessenger

\* App.tsx:49 / part_001:12: the map over the digest bytes and the join
ToHexCall ==
  /\ ~probe.done
  /\ probe' = [probe EXCEPT !.done = TRUE, !.out = Ok(ToHex(probe.data))]
  /\ UNCHANGED << initPc, encKeys, sigKeys, pubJwk, privJwk, events,
                  encryptToSelf, tamper, now, nextId, nextAes, calls,
                  rejected, nOps, attempted >>
  /\ UNCHANGED << messengerVars, legacyVars >>

NextHex == ToHexCall

SpecHex == InitHex /\ [][NextHex]_vars

(***************************************************************************)
(* prettyPrintJwk applied to the exports of the session keys, their fields  *)
(* taken in every order an implementation of exportKey may produce.         *)
(***************************************************************************)
JwkKeys ==
  { generateEncryptionKeyPair.publicKey, generateEncryptionKeyPair.privateKey,
    generateSigningKeyPair.publicKey, generateSigningKeyPair.privateKey }

\* the export of key with its fields in every order
JwkOrders(key) ==
  LET jwk == exportJwk(key)
  IN { [i \in 1..Len(jwk) |-> jwk[p[i]]] : p \in Permutations(1..Len(jwk)) }

InitJwk ==
  /\ initPc = "generating"
  /\ encKeys = None
  /\ sigKeys = None
  /\ pubJwk = None
  /\ privJwk = None
  /\ events = <<>>
  /\ encryptToSelf = TRUE
  /\ tamper = FALSE
  /\ now = 0
  /\ nextId = 0
  /\ nextAes = 0
  /\ calls = <<>>
  /\ rejected = {}
  /\ nOps = 0
  /\ \E key \in JwkKeys :
       probe \in [ fn : {"prettyPrintJwk"}, key : {key},
                   data : JwkOrders(key), arg : {<<>>},
                   done : {FALSE}, out : {Ok(<<>>)} ]
  /\ attempted = {}
  /\ NoMessenger

\* KeyViewer.tsx:6, AgentCard.tsx:256: one call of prettyPrintJwk
PrettyPrintJwkCall ==
  /\ ~probe.done
  /\ probe' = [probe EXCEPT !.done = TRUE,
                            !.out = Ok(prettyPrintJwk(probe.data))]
  /\ UNCHANGED << initPc, encKeys, sigKeys, pubJwk, privJwk, events,
                  encryptToSelf, tamper, now, nextId, nextAes, calls,
                  rejected, nOps, attempted >>
  /\ UNCHANGED << messengerVars, legacyVars >>

NextJwk == PrettyPrintJwkCall

SpecJwk == InitJwk /\ [][NextJwk]_vars

(***************************************************************************)
(* The messenger component (part_002) and its helpers (AgentCard.tsx).      *)
(***************************************************************************)
\* new TextDecoder().decode(bytes) for the bytes TextEncode produces
CharFromCode(code) ==
  IF \E i \in 1..16 : HexCodes[i] = code
  THEN HexDigits[CHOOSE i \in 1..16 : HexCodes[i] = code]
  ELSE "?"

TextDecode(bytes) == [i \in 1..Len(bytes) |-> CharFromCode(bytes[i])]

\* the message a block of modulus length carries: its bytes up to the padding
OaepMessage(body) ==
  LET used == { i \in 1..Len(body) : body[i] # 0 }
  IN SubSeq(body, 1, Cardinality({ i \in 1..Len(body) :
                                     \E j \in used : i <= j }))

\* an RSA-OAEP decryption that accepts a block of any length
RsaOaepOpenAnyLength(key, block) ==
  IF key.alg = RsaOaep /\ key.type = "private"
  THEN IF Len(block) > 0 /\ block[1] = key.id
       THEN Ok(OaepMessage(Tail(block)))
       ELSE Throw("OperationError")
  ELSE Throw("InvalidAccessError")

\* crypto.subtle.decrypt({name: RSA-OAEP}, key, block) for the blocks of
\* RsaOaepBlock: a block that is not of modulus length, or that is not the
\* encryption of a message under this key pair, is rejected
RsaOaepOpen(key, block) ==
  IF key.alg = RsaOaep /\ key.type = "private"
  THEN IF /\ Len(block) = RsaModulusBytes
          /\ block[1] = key.id
          /\ Len(OaepMessage(Tail(block))) <= RsaOaepMaxBytes
       THEN Ok(OaepMessage(Tail(block)))
       ELSE Throw("OperationError")
  ELSE Throw("InvalidAccessError")

\* AgentCard.tsx:192-199
decryptToString(privateKey, base64Ciphertext) ==
  LET cipherBytes == base64ToArrayBuffer(base64Ciphertext)
  IN IF ~cipherBytes.ok THEN cipherBytes
     ELSE LET decrypted == RsaOaepOpen(privateKey, cipherBytes.val)
          IN IF decrypted.ok THEN Ok(TextDecode(decrypted.val))
             ELSE decrypted

\* AgentCard.tsx:201-212
signString(privateKey, data) ==
  LET sig == SubtleSign(privateKey, TextEncode(data))
  IN IF sig.ok THEN Ok(arrayBufferToBase64(sig.val)) ELSE sig

\* AgentCard.tsx:214-227
verifySignature(publicKey, data, base64Signature) ==
  LET sigBytes == base64ToArrayBuffer(base64Signature)
  IN IF sigBytes.ok
     THEN SubtleVerify(publicKey, sigBytes.val, TextEncode(data))
     ELSE sigBytes

\* part_002:44-45: the agents the init effect sets
AliceKeys ==
  [ name |-> "Alice", encrypt |-> KeyPair(RsaOaep, 6),
    sign |-> KeyPair(RsaSsa, 7) ]

BobKeys ==
  [ name |-> "Bob", encrypt |-> BobEncryptionKeyPair,
    sign |-> KeyPair(RsaSsa, 8) ]

\* what the input field can hold: nothing, or a message
MessageInputs == { <<>>, << "c", "a", "f", "e" >> }

NoTarget ==
  [ id |-> NoSuchId, sender |-> "", ciphertext |-> <<>>, signature |-> None,
    plaintext |-> None, authentic |-> None, tampered |-> None,
    timestamp |-> 0 ]

\* a sendFromAlice call suspended at an await, with the state of its render
\* that it reads afterwards; seen is the length of the history of that render
SendCall ==
  [ kind |-> "send", id |-> NoSuchId, message |-> message,
    tamper |-> tamper, alice |-> alice, bob |-> bob, target |-> NoTarget,
    seen |-> Len(history) ]

\* a decryptAsBob call suspended at an await
DecryptCall(id, target) ==
  [ kind |-> "decrypt", id |-> id, message |-> <<>>, tamper |-> FALSE,
    alice |-> alice, bob |-> bob, target |-> target,
    seen |-> Len(history) ]

\* history.find((m) => m.id === id), 0 for undefined
FindMessage(list, id) ==
  IF \E i \in 1..Len(list) : list[i].id = id
  THEN CHOOSE i \in 1..Len(list) :
         /\ list[i].id = id
         /\ \A j \in 1..(i - 1) : list[j].id # id
  ELSE 0

\* part_002:52-60: the entry sendFromAlice builds
BuildEntry(msg, tamperFlag, a, b, uuid, t) ==
  LET ciphertext == encryptString(b.encrypt.publicKey, msg)
      signature == signString(a.sign.privateKey, msg)
  IN IF ~ciphertext.ok THEN ciphertext
     ELSE IF ~signature.ok THEN signature
     ELSE Ok([ id |-> uuid,
               sender |-> "Alice",
               ciphertext |-> MaybeTampered(tamperFlag, ciphertext.val),
               signature |-> Some(signature.val),
               plaintext |-> None,
               authentic |-> None,
               tampered |-> None,
               timestamp |-> t ])

\* part_002:70-72: the try block of decryptAsBob
DecryptTarget(target, a, b) ==
  LET plaintext == decryptToString(b.encrypt.privateKey, target.ciphertext)
  IN IF ~plaintext.ok THEN plaintext
     ELSE LET authentic == verifySignature(a.sign.publicKey, plaintext.val,
                                           OrEmpty(target.signature))
          IN IF ~authentic.ok THEN authentic
             ELSE Ok([plaintext |-> plaintext.val,
                      authentic |-> authentic.val])

\* part_002:72, 74: the message decryptAsBob puts in place of m
Decrypted(m, res) ==
  IF res.ok
  THEN [m EXCEPT !.plaintext = Some(res.val.plaintext),
                 !.authentic = Some(res.val.authentic)]
  ELSE [m EXCEPT !.plaintext = None, !.authentic = Some(FALSE),
                 !.tampered = Some(TRUE)]

\* the messages sent and being sent, and the decrypt calls issued
MessengerIssued == nextId + InFlight({"send"}) + nOps

docVars == << initPc, encKeys, sigKeys, pubJwk, privJwk, events,
              encryptToSelf, nextAes, probe >>

InitMessenger ==
  /\ initPc = "generating"
  /\ encKeys = None
  /\ sigKeys = None
  /\ pubJwk = None
  /\ privJwk = None
  /\ events = <<>>
  /\ encryptToSelf = TRUE
  /\ tamper = FALSE
  /\ now = 0
  /\ nextId = 0
  /\ nextAes = 0
  /\ calls = <<>>
  /\ rejected = {}
  /\ nOps = 0
  /\ probe = NoProbe
  /\ attempted = {}
  /\ NoMessenger

\* part_002:33-47: the init effect sets the agents in one turn
InitAgents ==
  /\ alice = None
  /\ bob = None
  /\ alice' = Some(AliceKeys)
  /\ bob' = Some(BobKeys)
  /\ UNCHANGED << docVars, tamper, now, nextId, calls, rejected, nOps,
                  attempted, message, history, legacyVars >>

\* part_002:123: onChange of the input field
SetMessage(m) ==
  /\ message' = m
  /\ UNCHANGED << docVars, tamper, now, nextId, calls, rejected, nOps,
                  attempted, alice, bob, history, legacyVars >>

\* part_002:100: onChange of the tamper checkbox
SetMessengerTamper ==
  /\ tamper' = ~tamper
  /\ UNCHANGED << docVars, now, nextId, calls, rejected, nOps, attempted,
                  messengerVars, legacyVars >>

\* part_002:50-51: sendFromAlice up to its first await
SendFromAliceStart ==
  /\ MessengerIssued < MaxCalls
  /\ calls' = IF alice = None \/ bob = None \/ message = <<>>
              THEN calls
              ELSE Append(calls, SendCall)
  /\ UNCHANGED << docVars, tamper, now, nextId, rejected, nOps, attempted,
                  messengerVars, legacyVars >>

\* part_002:52-63: the rest of sendFromAlice; setHistory((h) => [...h, entry]).
\* The timestamp is the clock value of the session; the advance of the clock
\* is not followed here, nothing in the component but the display reads it.
SendFromAliceDone(c) ==
  /\ calls[c].kind = "send"
  /\ calls' = Remove(c)
  /\ LET entry == BuildEntry(calls[c].message, calls[c].tamper,
                           calls[c].alice[1], calls[c].bob[1],
                           nextId + 1, now)
     IN IF entry.ok
        THEN /\ history' = Append(history, entry.val)
             /\ message' = <<>>
             /\ nextId' = nextId + 1
             /\ UNCHANGED rejected
        ELSE /\ rejected' = rejected \cup
                              { Rejection("send", NoSuchId, entry.err) }
             /\ UNCHANGED << history, message, nextId >>
  /\ UNCHANGED << docVars, tamper, now, nOps, attempted, alice, bob,
                  legacyVars >>

\* part_002:66-69: decryptAsBob up to its first await
DecryptAsBobStart(id) ==
  /\ MessengerIssued < MaxCalls
  /\ nOps' = nOps + 1
  /\ LET idx == FindMessage(history, id)
     IN calls' = IF bob = None \/ alice = None \/ idx = 0
                 THEN calls
                 ELSE Append(calls, DecryptCall(id, history[idx]))
  /\ UNCHANGED << docVars, tamper, now, nextId, rejected, attempted,
                  messengerVars, legacyVars >>

\* decryptAsBob putting its outcome on every message: prev.map without the
\* test of the id
DecryptAsBobDoneAll(c) ==
  /\ calls[c].kind = "decrypt"
  /\ calls' = Remove(c)
  /\ LET id == calls[c].id
         res == DecryptTarget(calls[c].target, calls[c].alice[1],
                              calls[c].bob[1])
         prev == history
     IN /\ history' = [i \in 1..Len(prev) |-> Decrypted(prev[i], res)]
        /\ attempted' = attempted \cup
                          { << "decryptAsBob", id,
                               Len(history) - calls[c].seen >> }
  /\ UNCHANGED << docVars, tamper, now, nextId, rejected, nOps, alice, bob,
                  message, legacyVars >>

\* part_002:70-76: the rest of decryptAsBob; setHistory((prev) => prev.map(..))
\* attempted records the id and how many messages were appended meanwhile
DecryptAsBobDone(c) ==
  /\ calls[c].kind = "decrypt"
  /\ calls' = Remove(c)
  /\ LET id == calls[c].id
         res == DecryptTarget(calls[c].target, calls[c].alice[1],
                              calls[c].bob[1])
         prev == history
     IN /\ history' = [i \in 1..Len(prev) |->
                         IF prev[i].id = id THEN Decrypted(prev[i], res)
                         ELSE prev[i]]
        /\ attempted' = attempted \cup
                          { << "decryptAsBob", id,
                               Len(history) - calls[c].seen >> }
  /\ UNCHANGED << docVars, tamper, now, nextId, rejected, nOps, alice, bob,
                  message, legacyVars >>

\* the ids a caller can pass to decryptAsBob
MessageIds == { history[i].id : i \in 1..Len(history) } \cup { NoSuchId }

NextMessenger ==
  \/ InitAgents
  \/ \E m \in MessageInputs : SetMessage(m)
  \/ SetMessengerTamper
  \/ SendFromAliceStart
  \/ \E c \in 1..Len(calls) : SendFromAliceDone(c)
  \/ \E id \in MessageIds : DecryptAsBobStart(id)
  \/ \E c \in 1..Len(calls) : DecryptAsBobDone(c)

SpecMessenger == InitMessenger /\ [][NextMessenger]_vars

(***************************************************************************)
(* Properties of the document log.                                          *)
(***************************************************************************)
Ids(evs) == {evs[i].id : i \in 1..Len(evs)}

Rec(evs, id) == evs[FindIndex(evs, id)]

\* C1: a record that is in the log is still in the log in every later
\* state, whatever submit, verify and decrypt calls interleave.
C1_RecordNeverRemoved ==
  [][\A id \in Ids(events) : id \in Ids(events')]_vars

\* C2: a verify and a decrypt of the same record lose nothing of each
\* other: when one of them completes on a record whose other outcome is
\* already set, the record holds both outcomes afterwards.
C2_BothOutcomesKept ==
  [][\A c \in 1..Len(calls) :
       LET id == calls[c].id IN
       /\ (OnVerifyDone(c) /\ id \in Ids(events)
             /\ IsSet(Rec(events, id).decryptedOk))
          => (IsSet(Rec(events', id).decryptedOk)
                /\ IsSet(Rec(events', id).authentic))
       /\ (OnDecryptDone(c) /\ id \in Ids(events)
             /\ IsSet(Rec(events, id).authentic))
          => (IsSet(Rec(events', id).authentic)
                /\ IsSet(Rec(events', id).decryptedOk))]_vars

\* C3: a verify or decrypt call completing on record A leaves every other
\* record of the log in the log, with all its fields unchanged.
C3_OtherRecordsUnchanged ==
  [][\A c \in 1..Len(calls) :
       (OnVerifyDone(c) \/ OnDecryptDone(c))
       => \A i \in 1..Len(events) :
            events[i].id # calls[c].id
            => \E j \in 1..Len(events') : events'[j] = events[i]]_vars

\* the three encryption artifacts of a record are set
Encrypted(e) == IsSet(e.ciphertext) /\ IsSet(e.iv) /\ IsSet(e.wrappedKey)

\* none of the three encryption artifacts of a record is set
Plaintext(e) == ~IsSet(e.ciphertext) /\ ~IsSet(e.iv) /\ ~IsSet(e.wrappedKey)

\* C4: every record of the log carries a non-empty signature and has its
\* ciphertext, iv and wrappedKey either all set or all absent, and the
\* record a submission stores has them set exactly when the encrypt flag
\* of that submission was on.
C4_ArtifactsAsUnit ==
  /\ [](\A i \in 1..Len(events) :
          /\ ~Falsy(events[i].signature)
          /\ (Encrypted(events[i]) \/ Plaintext(events[i])))
  /\ [][\A c \in 1..Len(calls) :
          (OnFileDone(c) /\ events' # events)
          => /\ Encrypted(events'[1]) <=> calls[c].encryptToSelf
             /\ Plaintext(events'[1]) <=> ~calls[c].encryptToSelf]_vars

\* C4 witness: the log holds an encrypted and a plaintext record
C4_Witness ==
  /\ \E i \in 1..Len(events) : Encrypted(events[i])
  /\ \E i \in 1..Len(events) : Plaintext(events[i])

\* the fields of a record that are fixed at its creation
Fixed(e) ==
  << e.id, e.filename, e.size, e.sha256, e.signature, e.ciphertext, e.iv,
     e.wrappedKey, e.createdAt >>

\* C5: a completing verify changes only `authentic` of its target record, a
\* completing decrypt only `decryptedOk` and `tampered`, and no step changes
\* a fixed field of a record that stays in the log.
C5_OnlyOutcomeFieldsChange ==
  [][/\ \A c \in 1..Len(calls) :
          LET id == calls[c].id IN
          /\ (OnVerifyDone(c) /\ id \in Ids(events) /\ id \in Ids(events'))
             => \E a \in {None, Some(TRUE), Some(FALSE)} :
                  Rec(events', id) = [Rec(events, id) EXCEPT !.authentic = a]
          /\ (OnDecryptDone(c) /\ id \in Ids(events) /\ id \in Ids(events'))
             => \E d \in {None, Some(TRUE), Some(FALSE)},
                   t \in {None, Some(TRUE), Some(FALSE)} :
                  Rec(events', id) = [Rec(events, id) EXCEPT
                                        !.decryptedOk = d, !.tampered = t]
     /\ \A id \in Ids(events) \cap Ids(events') :
          Fixed(Rec(events', id)) = Fixed(Rec(events, id))]_vars

\* C6: a completing submission adds exactly one record, with a new id, at
\* the head of the log and leaves every stored record as it was.
C6_SubmitAddsOneRecord ==
  [][\A c \in 1..Len(calls) :
       (OnFileDone(c) /\ rejected' = rejected)
       => /\ Len(events') = Len(events) + 1
          /\ Tail(events') = events
          /\ events'[1].id \notin Ids(events)]_vars

\* C6 witness: a submission completed on a log that held a record on which
\* a verify had completed
C6_Witness ==
  /\ Len(events) = 2
  /\ IsSet(events[2].authentic)

\* C7 as claimed: a verify or decrypt call with an id that is not in the
\* log is rejected with RecordNotFound.
C7_UnknownIdRejected ==
  [][\A id \in CallIds :
       (id \notin Ids(events) /\ (OnVerifyStart(id) \/ OnDecryptStart(id)))
       => \E r \in rejected' : r.id = id /\ r.err = "RecordNotFound"]_vars

\* C7 as amended: a verify or decrypt call with an id that is not in the
\* log returns at once without signalling anything: no promise is rejected,
\* no call is left suspended and the log is unchanged.
C7_UnknownIdIgnored ==
  [][\A id \in CallIds :
       (id \notin Ids(events) /\ (OnVerifyStart(id) \/ OnDecryptStart(id)))
       => /\ rejected' = rejected
          /\ calls' = calls
          /\ events' = events]_vars

\* C7 witness: with the keys generated, a lookup call was issued on a log
\* that never held a record
C7_Witness ==
  /\ initPc = "done"
  /\ nOps > 0
  /\ nextId = 0
  /\ calls = <<>>

\* the signature string holds a character that base64 does not have
NotBase64(str) ==
  \E i \in 1..Len(str) : str[i] \notin (B64Alphabet \cup { "=" })

\* C8 as claimed: verifyBytes does not reject on a malformed signature
\* string: a string that is not base64 yields the boolean false, like a
\* forged signature.
C8_MalformedYieldsFalse ==
  (probe.done /\ NotBase64(probe.arg))
  => (probe.out.ok /\ probe.out.val = FALSE)

\* C8 as amended: verifyBytes rejects with InvalidCharacterError on a
\* signature string that is not base64, and fulfils with false on a base64
\* string that is not the signature of the data under the key (a forged or
\* a structurally invalid one).
C8_MalformedRejects ==
  probe.done =>
    /\ NotBase64(probe.arg)
       => (~probe.out.ok /\ probe.out.err = "InvalidCharacterError")
    /\ (probe.out.ok /\ probe.arg \in ProbeStrings) => probe.out.val = FALSE
    /\ \A k \in { generateSigningKeyPair, OtherSigningKeyPair } :
         (probe.arg = signBytes(k.privateKey, probe.data).val
            /\ probe.key # k.publicKey)
         => (probe.out.ok /\ probe.out.val = FALSE)

\* C8 witness: verifyBytes was called on a string that is not base64 and
\* its promise rejected
C8_Witness ==
  /\ probe.done
  /\ NotBase64(probe.arg)
  /\ ~probe.out.ok

\* verifyBytes rejects on the digest and signature of record e
VerifyThrows(e, sk) ==
  ~verifyBytes(sk.publicKey, TextEncode(e.sha256), OrEmpty(e.signature)).ok

\* C9: no failure of a primitive leaves the pipeline: no handler call
\* rejects, the keys stay in place for later calls, and a completing verify
\* or decrypt returns normally and sets the outcome of its record, to false
\* when a primitive failed.
C9_FailuresBecomeOutcomes ==
  /\ [](rejected = {} /\ IsSet(encKeys) /\ IsSet(sigKeys))
  /\ [][\A c \in 1..Len(calls) :
          LET e == calls[c].current[calls[c].idx]
              id == calls[c].id
          IN /\ OnVerifyDone(c)
                => /\ id \in Ids(events')
                   /\ IsSet(Rec(events', id).authentic)
                   /\ VerifyThrows(e, calls[c].sigKeys[1])
                      => Rec(events', id).authentic = Some(FALSE)
             /\ OnDecryptDone(c)
                => /\ id \in Ids(events')
                   /\ IsSet(Rec(events', id).decryptedOk)
                   /\ ~DecryptTry(e, calls[c].encKeys[1]).ok
                      => Rec(events', id).decryptedOk = Some(FALSE)]_vars

\* C9 witness: a verify completed on a record whose signature is not
\* base64, and a later submission stored its record
C9_Witness ==
  /\ Len(events) = 2
  /\ NotBase64(OrEmpty(events[2].signature))
  /\ events[2].authentic = Some(FALSE)
  /\ calls = <<>>

\* the decryption outcome a record carries
Outcome(e) == << e.decryptedOk, e.tampered >>

\* the outcome of a decrypt whose authentication tag fails
TagFailureOutcome ==
  Outcome(DecryptRecord([StoredBase EXCEPT !.ciphertext =
                           Some(TamperCiphertext(TRUE,
                                                 StoredBase.ciphertext[1]))],
                        generateEncryptionKeyPair).val)

C11_OutcomeOnlyAfterAttempt ==
  /\ [](\A i \in 1..Len(events) :
          /\ IsSet(events[i].authentic)
             => << "verify", events[i].id, 1 >> \in attempted
          /\ (IsSet(events[i].decryptedOk) \/ IsSet(events[i].tampered))
             => << "decrypt", events[i].id, 1 >> \in attempted)
  /\ [][\A c \in 1..Len(calls) :
          (OnFileDone(c) /\ events' # events)
          => /\ events'[1].authentic = None
             /\ events'[1].decryptedOk = None
             /\ events'[1].tampered = None]_vars

\* C11 witness: the log holds a record whose decryption failed and a record
\* on which nothing was attempted
C11_Witness ==
  /\ \E i \in 1..Len(events) : events[i].decryptedOk = Some(FALSE)
  /\ \E i \in 1..Len(events) :
       events[i].authentic = None /\ events[i].decryptedOk = None

\* the stored signature of e decodes to the signature of the UTF-8 bytes
\* of the stored digest hex of e under the private key of pair sk
Genuine(e, sk) ==
  /\ ~Falsy(e.signature)
  /\ atob(e.signature[1]).ok
  /\ atob(e.signature[1]).val =
       SubtleSign(sk.privateKey, TextEncode(e.sha256)).val

\* C12: a completing verify sets authentic exactly when the stored
\* signature is the signature of the stored digest hex under the session's
\* signing key: the record a submission stores is genuine, and a signature
\* made with another key pair or over another digest yields forged.
C12_AuthenticIffGenuine ==
  [][\A c \in 1..Len(calls) :
       LET e == calls[c].current[calls[c].idx]
           id == calls[c].id
       IN /\ (OnFileDone(c) /\ events' # events)
             => Genuine(events'[1], sigKeys[1])
          /\ OnVerifyDone(c)
             => /\ Rec(events', id).authentic = Some(Genuine(e, sigKeys[1]))
                /\ Genuine(e, OtherSigningKeyPair)
                   => Rec(events', id).authentic = Some(FALSE)
                /\ e.sha256 \in StoredDigests
                   => Rec(events', id).authentic = Some(FALSE)]_vars

\* C12 witness: a verify completed on a record signed by another key pair
C12_Witness ==
  \E i \in 1..Len(events) :
    /\ Genuine(events[i], OtherSigningKeyPair)
    /\ events[i].authentic = Some(FALSE)

\* C13: for every payload submitted with encryption on and tamper off, the
\* stored wrappedKey, iv and ciphertext decrypt under the session's private
\* key to exactly the submitted payload, and a decrypt of the record sets
\* decryptedOk to true and leaves tampered unset.
C13_RoundTrip ==
  [][\A c \in 1..Len(calls) :
       /\ (OnFileDone(c) /\ events' # events
             /\ calls[c].encryptToSelf /\ ~calls[c].tamper)
          => DecryptTry(events'[1], encKeys[1]) = Ok(calls[c].file.bytes)
       /\ (OnDecryptDone(c) /\ encryptToSelf /\ ~tamper)
          => /\ Rec(events', calls[c].id).decryptedOk = Some(TRUE)
             /\ Rec(events', calls[c].id).tampered = None]_vars

\* C13 witness: a non-empty payload was submitted with encryption on and
\* tamper off, and its decrypt completed
C13_Witness ==
  /\ encryptToSelf /\ ~tamper
  /\ Len(events) = 1
  /\ events[1].size > 0
  /\ events[1].decryptedOk = Some(TRUE)

C15_SignatureSurvivesTamper ==
  [][\A c \in 1..Len(calls) :
       LET id == calls[c].id IN
       /\ (OnVerifyDone(c) /\ encryptToSelf /\ tamper)
          => Rec(events', id).authentic = Some(TRUE)
       /\ (OnDecryptDone(c) /\ id \in Ids(events)
             /\ ~DecryptTry(calls[c].current[calls[c].idx],
                            calls[c].encKeys[1]).ok)
          => Rec(events', id).authentic = Rec(events, id).authentic]_vars

\* the lowercase hexadecimal digits
LowerHex ==
  { "0", "1", "2", "3", "4", "5", "6", "7", "8", "9",
    "a", "b", "c", "d", "e", "f" }

C17_VerifyIdempotent ==
  [][\A c \in 1..Len(calls) :
       LET e == calls[c].current[calls[c].idx]
           id == calls[c].id
       IN /\ (OnVerifyDone(c) /\ IsSet(e.authentic)
                /\ id \in Ids(events) /\ Rec(events, id) = e)
             => Rec(events', id) = Rec(events, id)
          /\ (OnVerifyDone(c) /\ IsSet(e.authentic)
                /\ events = calls[c].current)
             => events' = events]_vars

\* C17 witness: two verify calls completed on a stored record whose
\* signature is not genuine
C17_Witness ==
  \E i \in 1..Len(events) :
    /\ << "verify", events[i].id, 2 >> \in attempted
    /\ ~Genuine(events[i], generateSigningKeyPair)
    /\ events[i].authentic = Some(FALSE)

\* the string the corruption step of the probed handler was applied to
CorruptionInput ==
  IF probe.fn = "onFile" THEN probe.arg
  ELSE encryptString(probe.key, probe.arg).val

\* C18: the corruption step is length-preserving: the string it returns is
\* as long as the base64 ciphertext string it was given, in onFile for
\* every string and in sendFromAlice for every ciphertext of encryptString.
C18_CorruptionKeepsLength ==
  probe.done => (probe.out.ok /\ Len(probe.out.val) = Len(CorruptionInput))

\* C18 witness: onFile corrupted a string longer than the window, and
\* sendFromAlice a ciphertext (two states, either is the case of the claim)
C18_Witness ==
  /\ probe.done
  /\ tamper
  /\ probe.out.val # CorruptionInput
  /\ probe.fn = "onFile" => Len(probe.arg) > TamperWindow

WrappedFor(e, ek) ==
  /\ atob(e.wrappedKey[1]).ok
  /\ SubtleRsaDecrypt(ek.privateKey, atob(e.wrappedKey[1]).val).ok

\* C20: the two key pairs are set together, once, and never replaced; no
\* submission is started and no record exists before both pairs exist; and
\* every record of the log is signed with the session's signing key and, if
\* encrypted, wrapped under the session's encryption key.
C20_KeysSetOnce ==
  /\ [][/\ IsSet(encKeys) => encKeys' = encKeys
        /\ IsSet(sigKeys) => sigKeys' = sigKeys]_vars
  /\ [](/\ IsSet(encKeys) <=> IsSet(sigKeys)
        /\ (Len(events) > 0 \/ Len(calls) > 0)
           => (IsSet(encKeys) /\ IsSet(sigKeys))
        /\ \A c \in 1..Len(calls) :
             calls[c].encKeys = encKeys /\ calls[c].sigKeys = sigKeys
        /\ \A i \in 1..Len(events) :
             /\ Genuine(events[i], sigKeys[1])
             /\ Encrypted(events[i]) => WrappedFor(events[i], encKeys[1]))

\* C20 witness: after the keys were generated the log holds two records,
\* one of them encrypted
C20_Witness ==
  /\ initPc = "done"
  /\ Len(events) = 2
  /\ \E i \in 1..Len(events) : Encrypted(events[i])

\* the raw symmetric key of an encrypted record, as onDecrypt recovers it
RawKey(e) ==
  SubtleRsaDecrypt(encKeys[1].privateKey, atob(e.wrappedKey[1]).val).val

\* the (symmetric key, iv) pair of an encrypted record
KeyIv(e) == << RawKey(e), e.iv[1] >>

\* the string-valued fields of a record
StringFields(e) ==
  { e.sha256 }
  \cup { o[1] : o \in { e.signature, e.ciphertext, e.iv, e.wrappedKey } \ { None } }

\* the records a list holds that carry the three artifacts
EncryptedIn(evs) == { evs[i] : i \in { j \in 1..Len(evs) : Encrypted(evs[j]) } }

\* the (symmetric key, iv) pairs of the encrypted records of a list
KeyIvs(evs) == { KeyIv(e) : e \in EncryptedIn(evs) }

\* no string field of e is the base64 text of its raw symmetric key
KeyNotStored(e) ==
  arrayBufferToBase64(RawKey(e)) \notin StringFields(e)

\* C21: the encrypted records of the log have pairwise different (symmetric
\* key, iv) pairs, and no string field of a record is the base64 text of the
\* raw symmetric key it was encrypted under.
C21_FreshKeyAndIv ==
  /\ Cardinality(KeyIvs(events))
       = Cardinality({ i \in 1..Len(events) : Encrypted(events[i]) })
  /\ \A e \in EncryptedIn(events) : KeyNotStored(e)

\* C21 witness: the log holds two encrypted records
C21_Witness ==
  /\ Len(events) = 2
  /\ Encrypted(events[1])
  /\ Encrypted(events[2])

\* C22: the hex encoding of n bytes has exactly 2n characters, all of them
\* lowercase hexadecimal digits, the two characters of each byte being the
\* digits of its high and low half, so a byte below 16 starts with '0' and
\* a digest of SHA-256 length encodes to 64 characters.
C22_HexFixedLength ==
  (probe.fn = "toHex" /\ probe.done)
  => LET hex == probe.out.val
         n == Len(probe.data)
     IN /\ probe.out.ok
        /\ Len(hex) = 2 * n
        /\ \A i \in 1..Len(hex) : hex[i] \in LowerHex
        /\ \A i \in 1..n :
             /\ hex[2 * i - 1] = HexDigits[(probe.data[i] \div 16) + 1]
             /\ hex[2 * i] = HexDigits[(probe.data[i] % 16) + 1]
        /\ n = Sha256Bytes => Len(hex) = 64

\* C22 witness: a digest-length sequence holding bytes below 16 was encoded
C22_Witness ==
  /\ probe.fn = "toHex"
  /\ probe.done
  /\ Len(probe.data) = Sha256Bytes
  /\ probe.data[1] = 9
  /\ probe.data[2] = 171
  /\ Len(probe.out.val) = 64

\* the fields of a key representation, as a set
JwkFields(jwk) == { jwk[i] : i \in 1..Len(jwk) }

\* C23: the text prettyPrintJwk gives for an export of a key has its fields
\* in strictly ascending order of field name, is the text it gives for the
\* export of that key with the fields in the order exportKey made them, and
\* holds every field of the export exactly once.
C23_CanonicalExport ==
  (probe.fn = "prettyPrintJwk" /\ probe.done)
  => LET text == probe.out.val
     IN /\ \A i \in 1..(Len(text) - 1) :
             CodeUnitLess(text[i][1], text[i + 1][1])
        /\ text = prettyPrintJwk(exportJwk(probe.key))
        /\ Len(text) = Len(probe.data)
        /\ JwkFields(text) = JwkFields(probe.data)

\* C23 witness: a private key whose export had its fields in an order that
\* is neither the sorted one nor the one exportKey made was printed
C23_Witness ==
  /\ probe.fn = "prettyPrintJwk"
  /\ probe.done
  /\ probe.key.type = "private"
  /\ probe.data # exportJwk(probe.key)
  /\ probe.data # probe.out.val
  /\ probe.data[1][1] = "n"

\* C24: a record of the log whose verification outcome is set still has it
\* set after every step that keeps the record, and likewise its decryption
\* outcome; both are set only by a completing verify or decrypt call.
C24_OutcomeNeverUnknownAgain ==
  [][\A id \in Ids(events) \cap Ids(events') :
       /\ IsSet(Rec(events, id).authentic)
          => IsSet(Rec(events', id).authentic)
       /\ IsSet(Rec(events, id).decryptedOk)
          => IsSet(Rec(events', id).decryptedOk)]_vars

\* C25: the createdAt values of the log never increase from its head to its
\* tail.
C25_NewestFirst ==
  \A i \in 1..(Len(events) - 1) :
    events[i].createdAt >= events[i + 1].createdAt

\* C25 witness: two submissions overlapped and the clock advanced between
\* their completions, so the log holds records of different createdAt
C25_Witness ==
  /\ Len(events) = 2
  /\ events[1].createdAt > events[2].createdAt
  /\ events[1].filename = events[2].filename

\* C26: a decrypt call on a record of the log that has none of the three
\* artifacts returns at once, leaving the log as it was, starting nothing
\* and rejecting nothing; and a record without artifacts never has a
\* decryption outcome or a tampered mark.
C26_DecryptPlaintextNoOp ==
  /\ [][\A id \in Ids(events) :
          (Plaintext(Rec(events, id)) /\ OnDecryptStart(id))
          => /\ events' = events
             /\ calls' = calls
             /\ rejected' = rejected]_vars
  /\ [](\A i \in 1..Len(events) :
          Plaintext(events[i])
          => events[i].decryptedOk = None /\ events[i].tampered = None)

\* C26 witness: the log holds one record, without artifacts; a verify on it
\* has completed and a second lookup call on this log has returned at once
C26_Witness ==
  /\ Len(events) = 1
  /\ Plaintext(events[1])
  /\ IsSet(events[1].authentic)
  /\ nOps = 2
  /\ calls = <<>>
  /\ attempted = { << "verify", events[1].id, 1 >> }
  /\ events[1].decryptedOk = None

(***************************************************************************)
(* The legacy messenger (src/unnamed/part_003).  A message holds its        *)
(* ciphertext and signature as ArrayBuffers; its id is the clock value at   *)
(* its creation.  The fixed texts the handlers write are kept whole, as     *)
(* one-element sequences.                                                   *)
(***************************************************************************)
\* part_003:97-99, 106-113
encryptWithPublicKey(publicKey, msg) ==
  RsaOaepBlock(publicKey, TextEncode(msg))

\* part_003:121-128
decryptWithPrivateKey(privateKey, encryptedMessage) ==
  LET decryptedBuffer == RsaOaepOpen(privateKey, encryptedMessage)
  IN IF decryptedBuffer.ok THEN Ok(TextDecode(decryptedBuffer.val))
     ELSE decryptedBuffer

\* part_003:136-143
signMessage(privateKey, msg) == SubtleSign(privateKey, TextEncode(msg))

\* part_003:152-160: verifySignature of the legacy component
legacyVerifySignature(publicKey, signature, msg) ==
  SubtleVerify(publicKey, signature, TextEncode(msg))

\* part_003:187-209: the key pairs setupAgents generates
LegacyAgents ==
  [ alice |-> [ signingKeys |-> KeyPair(RsaSsa, 11),
                encryptionKeys |-> KeyPair(RsaOaep, 12) ],
    bob |-> [ signingKeys |-> KeyPair(RsaSsa, 13),
              encryptionKeys |-> KeyPair(RsaOaep, 14) ],
    eve |-> [ signingKeys |-> KeyPair(RsaSsa, 15),
              encryptionKeys |-> KeyPair(RsaOaep, 16) ] ]

\* what the input field can hold: nothing, white space, or a message
LegacyInputs == { <<>>, << " " >>, << "c", "a", "f", "e" >> }

\* part_003:328-332: the three missions, each standing for its text
Missions ==
  { << "b", "e", "a", "d" >>, << "d", "e", "e", "d" >>,
    << "f", "a", "d", "e" >> }

\* part_003:240: !inputMessage.trim()
IsBlank(s) == \A i \in 1..Len(s) : s[i] = " "

\* part_003:318
TamperedText == << "EVE HAS TAMPERED WITH THIS MESSAGE!" >>

\* part_003:296
DecryptErrorText == << "Error: Could not decrypt message." >>

\* part_003:314: tamperedCiphertext[0] ^ 1
FlipBit(b) == IF b % 2 = 0 THEN b + 1 ELSE b - 1

\* part_003:312-316: the ciphertext with the low bit of its first byte flipped
TamperedCiphertext(ciphertext) ==
  IF Len(ciphertext) > 0
  THEN [ciphertext EXCEPT ![1] = FlipBit(ciphertext[1])]
  ELSE ciphertext

\* messages.find((m) => m.id === messageId), 0 for undefined
FindLegacy(list, id) ==
  IF \E i \in 1..Len(list) : list[i].id = id
  THEN CHOOSE i \in 1..Len(list) :
         /\ list[i].id = id
         /\ \A j \in 1..(i - 1) : list[j].id # id
  ELSE 0

\* a handler call of the legacy component suspended at an await, with what
\* it read from its render: the text, the agents, the message it found
LegacyCall(kind, id, text, target) ==
  [ kind |-> kind, id |-> id, text |-> text, agents |-> agents,
    target |-> target ]

\* part_003:243-259, 338-352: the message handleSendMessage and
\* handleGameMode build; t is the value of Date.now()
NewMessage(text, ag, t) ==
  LET encryptedData == encryptWithPublicKey(ag.bob.encryptionKeys.publicKey,
                                            text)
      signature == signMessage(ag.alice.signingKeys.privateKey, text)
  IN IF ~encryptedData.ok THEN encryptedData
     ELSE IF ~signature.ok THEN signature
     ELSE Ok([ id |-> t,
               sender |-> "Alice",
               originalText |-> text,
               ciphertext |-> encryptedData.val,
               signature |-> signature.val,
               isSigned |-> TRUE,
               isEncrypted |-> TRUE,
               isTampered |-> FALSE,
               isDecrypted |-> FALSE,
               isVerified |-> None,
               isEve |-> FALSE ])

\* part_003:274-282: the try block of handleDecryptMessage on the message the
\* call found; crypto.subtle.decrypt copied its ciphertext when it was called
LegacyDecrypt(target, ag) ==
  LET decryptedText ==
        decryptWithPrivateKey(ag.bob.encryptionKeys.privateKey,
                              target.ciphertext)
  IN IF ~decryptedText.ok THEN decryptedText
     ELSE IF target.isSigned
          THEN LET isVerified ==
                     legacyVerifySignature(ag.alice.signingKeys.publicKey,
                                           target.signature,
                                           decryptedText.val)
               IN IF ~isVerified.ok THEN isVerified
                  ELSE Ok([decryptedText |-> decryptedText.val,
                           isVerified |-> isVerified.val])
          ELSE Ok([decryptedText |-> decryptedText.val,
                   isVerified |-> FALSE])

\* part_003:287, 296: the message handleDecryptMessage puts in place of m
LegacyDecrypted(m, res) ==
  IF res.ok
  THEN [m EXCEPT !.originalText = res.val.decryptedText,
                 !.isDecrypted = TRUE,
                 !.isVerified = Some(res.val.isVerified),
                 !.isEve = FALSE]
  ELSE [m EXCEPT !.originalText = DecryptErrorText,
                 !.isDecrypted = TRUE,
                 !.isVerified = Some(FALSE),
                 !.isEve = FALSE]

\* part_003:310-319: the message handleTamperMessage puts in place of m
LegacyTampered(m, messageId) ==
  IF m.id = messageId /\ ~m.isTampered /\ m.isEncrypted
  THEN [m EXCEPT !.ciphertext = TamperedCiphertext(m.ciphertext),
                 !.isTampered = TRUE,
                 !.originalText = TamperedText]
  ELSE m

\* the messages created and being created, and the decrypt calls issued
LegacyIssued == Len(messages) + InFlight({"send", "game"}) + nOps

\* the ids of the messages that show their Tamper and Eavesdrop buttons
\* (part_003:434)
EveButtonIds ==
  { messages[i].id : i \in { j \in 1..Len(messages) :
                               ~messages[j].isEve /\ ~messages[j].isDecrypted } }

\* the ids of the messages not yet decrypted (part_003:424)
DecryptButtonIds ==
  { messages[i].id : i \in { j \in 1..Len(messages) :
                               ~messages[j].isDecrypted } }

messengerOnlyVars == << messengerVars, attempted, tamper, nextId >>

InitLegacy == InitMessenger

\* part_003:185-220: setupAgents sets the key pairs in one setAgents
SetupAgents ==
  /\ agents = None
  /\ agents' = Some(LegacyAgents)
  /\ UNCHANGED << docVars, messengerOnlyVars, now, calls, rejected, nOps,
                  messages, inputMessage, gameMode >>

\* part_003:563: onChange of the input field
SetInputMessage(m) ==
  /\ inputMessage' = m
  /\ UNCHANGED << docVars, messengerOnlyVars, now, calls, rejected, nOps,
                  agents, messages, gameMode >>

\* part_003:238-243: handleSendMessage up to its first await
HandleSendMessageStart ==
  /\ LegacyIssued < MaxCalls
  /\ calls' = IF IsBlank(inputMessage) \/ agents = None
              THEN calls
              ELSE Append(calls, LegacyCall("send", NoSuchId, inputMessage,
                                            NoTarget))
  /\ UNCHANGED << docVars, messengerOnlyVars, now, rejected, nOps,
                  legacyVars >>

\* part_003:243-263: the rest of handleSendMessage; the id is Date.now()
HandleSendMessageDone(c) ==
  /\ calls[c].kind = "send"
  /\ calls' = Remove(c)
  /\ \E t \in { u \in {now, now + 1} : u <= MaxNow } :
       LET newMessage == NewMessage(calls[c].text, calls[c].agents[1], t)
       IN /\ now' = t
          /\ IF newMessage.ok
             THEN /\ messages' = Append(messages, newMessage.val)
                  /\ inputMessage' = <<>>
                  /\ UNCHANGED rejected
             ELSE /\ rejected' = rejected \cup
                                   { Rejection("send", NoSuchId,
                                               newMessage.err) }
                  /\ UNCHANGED << messages, inputMessage >>
  /\ UNCHANGED << docVars, messengerOnlyVars, nOps, agents, gameMode >>

\* part_003:326-336: handleGameMode up to its first await
HandleGameModeStart ==
  /\ LegacyIssued < MaxCalls
  /\ gameMode' = TRUE
  /\ \E missionText \in Missions :
       calls' = IF agents = None
                THEN calls
                ELSE Append(calls, LegacyCall("game", NoSuchId, missionText,
                                              NoTarget))
  /\ UNCHANGED << docVars, messengerOnlyVars, now, rejected, nOps, agents,
                  messages, inputMessage >>

\* part_003:336-354: the rest of handleGameMode; the id is Date.now()
HandleGameModeDone(c) ==
  /\ calls[c].kind = "game"
  /\ calls' = Remove(c)
  /\ \E t \in { u \in {now, now + 1} : u <= MaxNow } :
       LET newMessage == NewMessage(calls[c].text, calls[c].agents[1], t)
       IN /\ now' = t
          /\ IF newMessage.ok
             THEN /\ messages' = Append(messages, newMessage.val)
                  /\ UNCHANGED rejected
             ELSE /\ rejected' = rejected \cup
                                   { Rejection("game", NoSuchId,
                                               newMessage.err) }
                  /\ UNCHANGED messages
  /\ UNCHANGED << docVars, messengerOnlyVars, nOps, agents, inputMessage,
                  gameMode >>

\* part_003:270-276: handleDecryptMessage up to its first await, called for
\* a message that is not decrypted yet (part_003:424).  The render shows the
\* Decrypt button on the messages Bob sent (isBob, part_003:372), of which
\* there are none; the handler is taken as the operation it is.
HandleDecryptMessageStart(messageId) ==
  /\ LegacyIssued < MaxCalls
  /\ nOps' = nOps + 1
  /\ LET idx == FindLegacy(messages, messageId)
     IN calls' = IF idx = 0 \/ agents = None
                 THEN calls
                 ELSE Append(calls, LegacyCall("decrypt", messageId, <<>>,
                                               messages[idx]))
  /\ UNCHANGED << docVars, messengerOnlyVars, now, rejected, legacyVars >>

\* part_003:276-300: the rest of handleDecryptMessage;
\* setMessages((prev) => prev.map((m) => m.id === messageId ? ... : m))
HandleDecryptMessageDone(c) ==
  /\ calls[c].kind = "decrypt"
  /\ calls' = Remove(c)
  /\ LET res == LegacyDecrypt(calls[c].target, calls[c].agents[1])
         prev == messages
     IN messages' = [i \in 1..Len(prev) |->
                       IF prev[i].id = calls[c].id
                       THEN LegacyDecrypted(prev[i], res)
                       ELSE prev[i]]
  /\ UNCHANGED << docVars, messengerOnlyVars, now, rejected, nOps, agents,
                  inputMessage, gameMode >>

\* part_003:307-321: handleTamperMessage, a synchronous functional update
HandleTamperMessage(messageId) ==
  /\ LET prev == messages
     IN messages' = [i \in 1..Len(prev) |->
                       LegacyTampered(prev[i], messageId)]
  /\ UNCHANGED << docVars, messengerOnlyVars, now, calls, rejected, nOps,
                  agents, inputMessage, gameMode >>

\* part_003:443: the Eavesdrop button
Eavesdrop(messageId) ==
  /\ LET prev == messages
     IN messages' = [i \in 1..Len(prev) |->
                       IF prev[i].id = messageId
                       THEN [prev[i] EXCEPT !.isEve = TRUE]
                       ELSE prev[i]]
  /\ UNCHANGED << docVars, messengerOnlyVars, now, calls, rejected, nOps,
                  agents, inputMessage, gameMode >>

NextLegacy ==
  \/ SetupAgents
  \/ \E m \in LegacyInputs : SetInputMessage(m)
  \/ HandleSendMessageStart
  \/ \E c \in 1..Len(calls) : HandleSendMessageDone(c)
  \/ HandleGameModeStart
  \/ \E c \in 1..Len(calls) : HandleGameModeDone(c)
  \/ \E id \in DecryptButtonIds : HandleDecryptMessageStart(id)
  \/ \E c \in 1..Len(calls) : HandleDecryptMessageDone(c)
  \/ \E id \in EveButtonIds : HandleTamperMessage(id)
  \/ \E id \in EveButtonIds : Eavesdrop(id)

SpecLegacy == InitLegacy /\ [][NextLegacy]_vars

\* ---------------------------------------------------------------------
\* Properties of the messenger (src/unnamed/part_002)

\* C27: a decryptAsBob call changes only the message with the requested id:
\* when it completes, the history keeps its length, every message with
\* another id is unchanged, and the messages appended by sendFromAlice since
\* the call started are still there unchanged; no step removes a message or
\* changes the id at a position of the history.
C27_DecryptChangesOnlyTarget ==
  [][ /\ Len(history') >= Len(history)
      /\ \A i \in 1..Len(history) : history'[i].id = history[i].id
      /\ \A c \in 1..Len(calls) :
           DecryptAsBobDone(c) =>
             /\ Len(history') = Len(history)
             /\ \A i \in 1..Len(history) :
                  history[i].id # calls[c].id => history'[i] = history[i]
             /\ \A i \in (calls[c].seen + 1)..Len(history) :
                  history'[i] = history[i] ]_vars

\* a decryptAsBob call on the first message has completed after a second
\* message was appended during its flight; the second message is untouched
C27_Witness ==
  /\ Len(history) >= 2
  /\ \E k \in 1..MaxCalls :
       << "decryptAsBob", history[1].id, k >> \in attempted
  /\ history[1].plaintext # None \/ history[1].tampered # None
  /\ history[2].plaintext = None
  /\ history[2].authentic = None
  /\ history[2].tampered = None

\* the message was sent with the tamper flag on: its ciphertext carries the
\* replaced tail of part_002:54
SentTampered(m) == m.ciphertext = MaybeTampered(TRUE, m.ciphertext)

\* decryptAsBob has completed on the message
DecryptedAsBob(m) ==
  \E k \in 0..MaxCalls : << "decryptAsBob", m.id, k >> \in attempted

MarkedTampered(m) ==
  /\ m.tampered = Some(TRUE)
  /\ m.authentic = Some(FALSE)
  /\ m.plaintext = None

\* C28: a message marked tampered has authentic = false and no plaintext,
\* and a message sent with the tamper flag on is in that state after every
\* decryptAsBob call on it.
C28_TamperedNeverAuthentic ==
  \A i \in 1..Len(history) :
    /\ history[i].tampered = Some(TRUE) => MarkedTampered(history[i])
    /\ SentTampered(history[i]) /\ DecryptedAsBob(history[i])
         => MarkedTampered(history[i])

\* a message sent with the tamper flag on has been through decryptAsBob
C28_Witness ==
  \E i \in 1..Len(history) :
    /\ SentTampered(history[i])
    /\ DecryptedAsBob(history[i])
    /\ history[i].tampered = Some(TRUE)

\* ---------------------------------------------------------------------
\* Properties of the legacy messenger (src/unnamed/part_003)

ChangesOneMessage ==
  /\ Len(messages') = Len(messages)
  /\ Cardinality({ i \in 1..Len(messages) : messages'[i] # messages[i] }) = 1

\* C30: any two distinct messages of the list have distinct ids, so a
\* decrypt, a tamper or an eavesdrop by id changes exactly one message, also
\* when handleSendMessage and handleGameMode create messages at the same
\* clock value.
C30_DistinctIds ==
  /\ [](\A i, j \in 1..Len(messages) :
          i # j => messages[i].id # messages[j].id)
  /\ [][ /\ \A c \in 1..Len(calls) :
              HandleDecryptMessageDone(c) => ChangesOneMessage
         /\ \A id \in EveButtonIds :
              /\ HandleTamperMessage(id) /\ messages' # messages
                   => ChangesOneMessage
              /\ Eavesdrop(id) => ChangesOneMessage ]_vars

====
